---- MODULE Spec2Model ----
(***************************************************************************)
(* A model of jobradar's core: the listing model and its content hash,     *)
(* the normalizer, the deduplicator with its persisted state file, the     *)
(* visa scorer and the pipeline that sequences them.                       *)
(*                                                                         *)
(* Text.  A Python str is modelled as a sequence of chunks.  A chunk is a  *)
(* pair <<w, c>>: w is a run of characters written in lower case and c is  *)
(* its letter case, "l" (as written), "C" (first letter upper, rest lower) *)
(* or "U" (all upper).  A chunk is a run of letters, a run of digits, one  *)
(* whitespace character or one punctuation run; only letter chunks carry a *)
(* case other than "l".  Words that contain a table phrase inside them are *)
(* written as several chunks (<<"under", "graduate">>), so that Python's   *)
(* substring test is the contiguous-subsequence test on chunks.            *)
(***************************************************************************)
EXTENDS Integers, Sequences, FiniteSets, TLC

\* ------------------------------------------------------------------ text

Spaces == {" ", "\t"}
Puncts == {"-", "|", ",", "/", ".", "://"}
Digits == {"1", "2", "485"}

IsSpace(ch) == ch[1] \in Spaces
IsLetters(ch) == ch[1] \notin (Spaces \cup Puncts \cup Digits)
\* the regex class \w: letters, digits and underscore
IsWordChar(ch) == ch[1] \notin (Spaces \cup Puncts)

\* a lower-case text from its chunks' characters
Txt(ws) == [i \in DOMAIN ws |-> <<ws[i], "l">>]

\* str.lower()
StrLower(s) == [i \in DOMAIN s |-> <<s[i][1], "l">>]

\* str.upper(): letters become upper case, everything else is unchanged
StrUpper(s) == [i \in DOMAIN s |-> IF IsLetters(s[i]) THEN <<s[i][1], "U">> ELSE s[i]]

\* str.title(): the first letter of every run of letters upper, the rest lower
StrTitle(s) ==
    [i \in DOMAIN s |->
        IF IsLetters(s[i]) /\ (i = 1 \/ ~IsLetters(s[i - 1]))
        THEN <<s[i][1], "C">>
        ELSE <<s[i][1], "l">>]

RECURSIVE LStrip(_)
LStrip(s) == IF s # <<>> /\ IsSpace(Head(s)) THEN LStrip(Tail(s)) ELSE s

RECURSIVE RStrip(_)
RStrip(s) ==
    IF s # <<>> /\ IsSpace(s[Len(s)]) THEN RStrip(SubSeq(s, 1, Len(s) - 1)) ELSE s

\* str.strip()
StrStrip(s) == LStrip(RStrip(s))

\* phrase occurs in text at position i
MatchAt(text, phrase, i) ==
    /\ i + Len(phrase) - 1 <= Len(text)
    /\ \A k \in 1..Len(phrase) : text[i + k - 1] = phrase[k]

\* Python's  phrase in text
StrIn(phrase, text) == \E i \in 1..(Len(text) + 1) : MatchAt(text, phrase, i)

\* f"{a}{sep}{b}"
Join2(a, sep, b) == a \o Txt(<<sep>>) \o b

\* len(s) in characters
RECURSIVE StrLen(_)
StrLen(s) == IF s = <<>> THEN 0 ELSE Len(Head(s)[1]) + StrLen(Tail(s))

\* s[:n] for a text whose chunk boundary falls on character n whenever it is
\* longer than n (the texts of this model are written that way)
RECURSIVE StrTake(_, _)
StrTake(s, n) ==
    IF s = <<>> \/ Len(Head(s)[1]) > n
    THEN <<>>
    ELSE <<Head(s)>> \o StrTake(Tail(s), n - Len(Head(s)[1]))

\* ----------------------------------------------------- core/models.py

\* hashlib.md5(key.encode()).hexdigest(): the digest is modelled as an
\* injective image of the key (no collisions), never the empty string
Md5(key) == <<<<"md5", "l">>>> \o key

\* the hash key without lower-casing
ComputeHashCaseSensitive(title, company, location, url) ==
    LET u == StrStrip(url)
        key == IF u # <<>>
               THEN u
               ELSE Join2(Join2(title, "|", company), "|", location)
    IN  Md5(key)

\* JobListing._compute_hash
ComputeHash(title, company, location, url) ==
    LET u == StrLower(StrStrip(url))
        key == IF u # <<>>
               THEN u
               ELSE StrLower(Join2(Join2(title, "|", company), "|", location))
    IN  Md5(key)

NotScored == -1

\* the JobListing dataclass with its defaults and __post_init__
JobListing(source, title, company, location, url, summary, tags) ==
    [ source      |-> source,
      title       |-> title,
      company     |-> company,
      location    |-> location,
      url         |-> url,
      date_found  |-> "today",
      summary     |-> summary,
      tags        |-> tags,
      visa_score  |-> NotScored,
      visa_reason |-> <<>>,
      hash_id     |-> ComputeHash(title, company, location, url) ]

\* -------------------------------------------------- core/normalize.py

\* a one-word text with its first letter in upper case
Cap(w) == <<<<w, "C">>>>

\* _LOCATION_MAP, in the dict's insertion order
LOCATION_MAP ==
    << <<Txt(<<"adelaide">>),                 Cap("adelaide")>>,
       <<Txt(<<"sa">>),                       Cap("adelaide")>>,
       <<Txt(<<"south", " ", "australia">>),  Cap("adelaide")>>,
       <<Txt(<<"melbourne">>),                Cap("melbourne")>>,
       <<Txt(<<"vic">>),                      Cap("melbourne")>>,
       <<Txt(<<"vic", "toria">>),             Cap("melbourne")>>,
       <<Txt(<<"remote">>),                   Cap("remote")>>,
       <<Txt(<<"hybrid">>),                   Cap("hybrid")>>,
       <<Txt(<<"australia">>),                Cap("australia")>> >>

\* _normalize_location: the first alias of the table contained in the
\* stripped, lower-cased raw text wins; otherwise the title-cased original
RECURSIVE FirstAlias(_, _, _)
FirstAlias(key, i, fallback) ==
    IF i > Len(LOCATION_MAP) THEN fallback
    ELSE IF StrIn(LOCATION_MAP[i][1], key) THEN LOCATION_MAP[i][2]
    ELSE FirstAlias(key, i + 1, fallback)

NormalizeLocation(raw) ==
    FirstAlias(StrLower(StrStrip(raw)), 1, StrTitle(StrStrip(raw)))

\* the loop of _normalize_location over the alias table given, from entry i on
RECURSIVE FirstAliasIn(_, _, _, _)
FirstAliasIn(table, key, i, fallback) ==
    IF i > Len(table) THEN fallback
    ELSE IF StrIn(table[i][1], key) THEN table[i][2]
    ELSE FirstAliasIn(table, key, i + 1, fallback)

\* _normalize_location with _LOCATION_MAP holding its entries in another order
NormalizeLocationWith(table, raw) ==
    FirstAliasIn(table, StrLower(StrStrip(raw)), 1, StrTitle(StrStrip(raw)))

\* _LEVEL_KEYWORDS and _ROLE_KEYWORDS, in insertion order: <<tag, phrases>>
LEVEL_KEYWORDS ==
    << <<"Graduate",    {Txt(<<"graduate">>), Txt(<<"grad", " ">>)}>>,
       <<"Junior",      {Txt(<<"junior">>), Txt(<<"jr", " ">>)}>>,
       <<"Entry",       {Txt(<<"entry">>), Txt(<<"entry", "-", "level">>),
                         Txt(<<"entry", " ", "level">>)}>>,
       <<"Associate",   {Txt(<<"associate">>)}>>,
       <<"EarlyCareer", {Txt(<<"early", " ", "career">>), Txt(<<"cadet">>)}>> >>

ROLE_KEYWORDS ==
    << <<"SWE", {Txt(<<"software", " ", "engineer">>), Txt(<<"software", " ", "developer">>),
                 Txt(<<"backend">>), Txt(<<"frontend">>), Txt(<<"full", " ", "stack">>),
                 Txt(<<"full", "stack">>), Txt(<<"web", " ", "developer">>),
                 Txt(<<"devops">>), Txt(<<"platform", " ", "engineer">>)}>>,
       <<"Architecture", {Txt(<<"architect">>)}>>,
       <<"Program", {Txt(<<"graduate", " ", "program">>),
                     Txt(<<"graduate", " ", "program", "me">>),
                     Txt(<<"rotation", " ", "program">>), Txt(<<"rotation", "al">>),
                     Txt(<<"intern", "ship">>), Txt(<<"cadet", " ", "program">>)}>> >>

\* the tags of one table whose phrase list has a match, in table order
RECURSIVE TagsOf(_, _, _)
TagsOf(table, combined, i) ==
    IF i > Len(table) THEN <<>>
    ELSE (IF \E p \in table[i][2] : StrIn(p, combined) THEN <<table[i][1]>> ELSE <<>>)
         \o TagsOf(table, combined, i + 1)

\* _tag_listing
TagListing(title, summary) ==
    LET combined == StrLower(Join2(title, " ", summary))
    IN  TagsOf(LEVEL_KEYWORDS, combined, 1) \o TagsOf(ROLE_KEYWORDS, combined, 1)

\* _clean_text: re.sub(r"\s+", " ", text).strip()
RECURSIVE CollapseSpaces(_)
CollapseSpaces(s) ==
    IF s = <<>> THEN <<>>
    ELSE IF IsSpace(Head(s)) THEN Txt(<<" ">>) \o CollapseSpaces(LStrip(s))
    ELSE <<Head(s)>> \o CollapseSpaces(Tail(s))

CleanText(text) == StrStrip(CollapseSpaces(text))

\* A raw record is a function from some of the keys to values; a value is a
\* str, [t |-> "str", s |-> text], or not one (None), [t |-> "none", s |-> <<>>].
RawKeys == {"title", "company", "location", "url", "summary"}
Str(text) == [t |-> "str", s |-> text]
None == [t |-> "none", s |-> <<>>]

\* dict.get(key, default)
RawGet(raw, key, default) == IF key \in DOMAIN raw THEN raw[key] ELSE Str(default)

SUMMARY_MAX == 500

\* normalize raises (TypeError from re.sub, AttributeError from .strip) exactly
\* when a value it reads is not a str
NormalizeRaises(raw) == \E k \in RawKeys \cap DOMAIN raw : raw[k].t # "str"

\* normalize, for a record on which it does not raise
Normalize(raw, source) ==
    LET title    == CleanText(RawGet(raw, "title", Cap("unknown")).s)
        company  == CleanText(RawGet(raw, "company", Cap("unknown")).s)
        location == NormalizeLocation(RawGet(raw, "location", <<>>).s)
        url      == StrStrip(RawGet(raw, "url", <<>>).s)
        summary  == CleanText(RawGet(raw, "summary", <<>>).s)
        tags     == TagListing(title, summary)
    IN  JobListing(source, title, company, location, url,
                   StrTake(summary, SUMMARY_MAX), tags)

\* ---------------------------------------------- core/visa_scoring.py

\* the signal tables: <<phrase, delta, label>>
HARD_NEGATIVES ==
    << <<Txt(<<"australia", "n", " ", "citizen">>),             -4, "Australian citizen required">>,
       <<Txt(<<"must", " ", "be", " ", "a", " ", "citizen">>),  -4, "Australian citizen required">>,
       <<Txt(<<"citizen", " ", "only">>),                       -4, "Citizen only">>,
       <<Txt(<<"citizen", "ship", " ", "required">>),           -4, "Citizenship required">>,
       <<Txt(<<"nv", "1">>),                                    -4, "NV1 clearance required">>,
       <<Txt(<<"nv", "2">>),                                    -4, "NV2 clearance required">>,
       <<Txt(<<"top", " ", "secret">>),                         -4, "Security clearance required">>,
       <<Txt(<<"secret", " ", "clearance">>),                   -4, "Security clearance required">>,
       <<Txt(<<"baseline", " ", "clearance">>),                 -3, "Baseline clearance required">>,
       <<Txt(<<"security", " ", "clearance">>),                 -3, "Security clearance required">>,
       <<Txt(<<"pr", " ", "only">>),                            -3, "Permanent residents only">>,
       <<Txt(<<"permanent", " ", "resident", " ", "only">>),    -3, "Permanent residents only">>,
       <<Txt(<<"must", " ", "hold", " ", "permanent">>),        -3, "Permanent residence required">> >>

SOFT_NEGATIVES ==
    << <<Txt(<<"full", " ", "work", "ing", " ", "rights">>),    -1,
         "Full working rights mentioned (may exclude temporary visas)">>,
       <<Txt(<<"permanent", " ", "work", " ", "rights">>),      -2, "Permanent work rights required">>,
       <<Txt(<<"must", " ", "have", " ", "full", " ", "work", "ing", " ", "rights">>), -2,
         "Full working rights required">> >>

POSITIVES ==
    << <<Txt(<<"visa", " ", "sponsor", "ship">>),               3, "Visa sponsorship available">>,
       <<Txt(<<"sponsor", "ship", " ", "available">>),          3, "Visa sponsorship available">>,
       <<Txt(<<"sponsor", " ", "visa">>),                       3, "Visa sponsorship available">>,
       <<Txt(<<"intern", "ational", " ", "candidates">>),       2, "International candidates welcome">>,
       <<Txt(<<"intern", "ational", " ", "students">>),         2, "International students welcome">>,
       <<Txt(<<"welcome", " ", "intern", "ational">>),          2, "International candidates welcome">>,
       <<Txt(<<"temporary", " ", "visa">>),                     2, "Temporary visa accepted">>,
       <<Txt(<<"temporary", " ", "work", " ", "visa">>),        2, "Temporary visa accepted">>,
       <<Txt(<<"work", " ", "rights", " ", "in", " ", "australia">>), 1,
         "Work rights in Australia mentioned">>,
       <<Txt(<<"485">>),                                        2, "485 visa mentioned">>,
       <<Txt(<<"graduate", " ", "visa">>),                      2, "Graduate visa (485) mentioned">> >>

BASE_SCORE == 2
SCORE_MIN == 0
SCORE_MAX == 5
NO_SIGNALS == <<"No specific signals found">>

Min2(a, b) == IF a < b THEN a ELSE b
Max2(a, b) == IF a > b THEN a ELSE b

\* the loop clamping the score after every delta
RECURSIVE ScanSignalsClamping(_, _, _, _, _)
ScanSignalsClamping(table, mark, text, i, acc) ==
    IF i > Len(table) THEN acc
    ELSE ScanSignalsClamping(table, mark, text, i + 1,
             IF StrIn(table[i][1], text)
             THEN <<Max2(SCORE_MIN, Min2(SCORE_MAX, acc[1] + table[i][2])),
                    Append(acc[2], <<mark, table[i][3]>>)>>
             ELSE acc)

\* the loop appending a label only when reasons does not hold it yet
RECURSIVE ScanSignalsOncePerLabel(_, _, _, _, _)
ScanSignalsOncePerLabel(table, mark, text, i, acc) ==
    IF i > Len(table) THEN acc
    ELSE ScanSignalsOncePerLabel(table, mark, text, i + 1,
             IF StrIn(table[i][1], text)
             THEN <<acc[1] + table[i][2],
                    IF \E k \in DOMAIN acc[2] : acc[2][k] = <<mark, table[i][3]>>
                    THEN acc[2]
                    ELSE Append(acc[2], <<mark, table[i][3]>>)>>
             ELSE acc)

\* one  for phrase, delta, label in table  loop of score_job, from entry i on:
\* acc is <<score, reasons>>, mark the "[-] " or "[+] " of the loop
RECURSIVE ScanSignals(_, _, _, _, _)
ScanSignals(table, mark, text, i, acc) ==
    IF i > Len(table) THEN acc
    ELSE ScanSignals(table, mark, text, i + 1,
             IF StrIn(table[i][1], text)
             THEN <<acc[1] + table[i][2], Append(acc[2], <<mark, table[i][3]>>)>>
             ELSE acc)

\* "; ".join(reasons)
RECURSIVE JoinReasons(_)
JoinReasons(reasons) ==
    IF reasons = <<>> THEN <<>>
    ELSE IF Len(reasons) = 1 THEN Head(reasons)
    ELSE Head(reasons) \o <<"; ">> \o JoinReasons(Tail(reasons))

\* score_job without the clamp
ScoreJobUnclamped(job) ==
    LET text == StrLower(Join2(job.title, " ", job.summary))
        h == ScanSignals(HARD_NEGATIVES, "[-] ", text, 1, <<BASE_SCORE, <<>>>>)
        n == ScanSignals(SOFT_NEGATIVES, "[-] ", text, 1, h)
        p == ScanSignals(POSITIVES, "[+] ", text, 1, n)
    IN  [job EXCEPT
            !.visa_score = p[1],
            !.visa_reason = IF p[2] # <<>> THEN JoinReasons(p[2]) ELSE NO_SIGNALS]

\* score_job that also recomputes hash_id, from the title, company and location
ScoreJobRehashing(job) ==
    LET text == StrLower(Join2(job.title, " ", job.summary))
        h == ScanSignals(HARD_NEGATIVES, "[-] ", text, 1, <<BASE_SCORE, <<>>>>)
        n == ScanSignals(SOFT_NEGATIVES, "[-] ", text, 1, h)
        p == ScanSignals(POSITIVES, "[+] ", text, 1, n)
    IN  [job EXCEPT
            !.visa_score = Max2(SCORE_MIN, Min2(SCORE_MAX, p[1])),
            !.visa_reason = IF p[2] # <<>> THEN JoinReasons(p[2]) ELSE NO_SIGNALS,
            !.hash_id = ComputeHash(job.title, job.company, job.location, <<>>)]

\* score_job: the listing with visa_score and visa_reason set
ScoreJob(job) ==
    LET text == StrLower(Join2(job.title, " ", job.summary))
        h == ScanSignals(HARD_NEGATIVES, "[-] ", text, 1, <<BASE_SCORE, <<>>>>)
        n == ScanSignals(SOFT_NEGATIVES, "[-] ", text, 1, h)
        p == ScanSignals(POSITIVES, "[+] ", text, 1, n)
    IN  [job EXCEPT
            !.visa_score = Max2(SCORE_MIN, Min2(SCORE_MAX, p[1])),
            !.visa_reason = IF p[2] # <<>> THEN JoinReasons(p[2]) ELSE NO_SIGNALS]

\* score_all
ScoreAll(jobs) == [i \in DOMAIN jobs |-> ScoreJob(jobs[i])]

\* ----------------------------------------------------- core/dedupe.py

\* The state file data/seen_jobs.json:
\*   [kind |-> "absent",  items |-> <<>>]   no file
\*   [kind |-> "invalid", items |-> <<>>]   content json.loads rejects
\*   [kind |-> "array",   items |-> s]      a JSON array; an item is a JSON
\*                                          string, Str(h), or a number, Num
Absent == [kind |-> "absent", items |-> <<>>]
Invalid == [kind |-> "invalid", items |-> <<>>]
Array(items) == [kind |-> "array", items |-> items]
Num == [t |-> "num", s |-> <<>>]

\* the hexdigests of the model's keys in ascending order (the order of str <)
DigestOrder ==
    << Md5(Txt(<<"https", "://", "x", "/", "2">>)),     \* 2261a33c...
       Md5(Txt(<<"https", "://", "x", "/", "1">>)),     \* 2b6a374d...
       Md5(Txt(<<"https", "://", "x", "/", "3">>)),     \* aa3981ce...
       Md5(Txt(<<"software", " ", "engineer", "|", "unknown", "|", "melbourne">>)) >>
                                                        \* d5157518...

\* _load_seen: the set of the array's items; empty when the file is missing
\* or json.loads raises
LoadSeen(f) ==
    IF f.kind = "array" THEN {f.items[i] : i \in DOMAIN f.items} ELSE {}

\* sorted(seen) raises TypeError when it has to compare a str with a number
SortRaises(seen) == (\E x \in seen : x.t = "str") /\ (\E x \in seen : x.t # "str")

\* sorted(seen), for a set of strings
Sorted(seen) ==
    LET inSeen(h) == Str(h) \in seen
        ordered == SelectSeq(DigestOrder, inSeen)
    IN  [i \in DOMAIN ordered |-> Str(ordered[i])]

\* _save_seen: the file after  write_text(json.dumps(sorted(seen)))
SaveSeen(seen) == Array(Sorted(seen))

\* the loop without its session_seen test
RECURSIVE DedupeLoopNoSession(_, _, _, _)
DedupeLoopNoSession(listings, seen, i, acc) ==
    IF i > Len(listings) THEN acc
    ELSE LET key == Str(listings[i].hash_id)
         IN  DedupeLoopNoSession(listings, seen, i + 1,
                 IF key \in seen
                 THEN acc
                 ELSE <<Append(acc[1], listings[i]), acc[2] \cup {key}>>)

\* the  for job in listings  loop of deduplicate, from listing i on:
\* acc is <<fresh, session_seen>>
RECURSIVE DedupeLoop(_, _, _, _)
DedupeLoop(listings, seen, i, acc) ==
    IF i > Len(listings) THEN acc
    ELSE LET key == Str(listings[i].hash_id)
         IN  DedupeLoop(listings, seen, i + 1,
                 IF key \in seen \/ key \in acc[2]
                 THEN acc
                 ELSE <<Append(acc[1], listings[i]), acc[2] \cup {key}>>)

\* deduplicate that never writes the state file
DeduplicateNeverSaves(f, listings, persist) ==
    LET r == DedupeLoop(listings, LoadSeen(f), 1, <<<<>>, {}>>)
    IN  [fresh |-> r[1], raised |-> FALSE, file |-> f]

\* deduplicate that writes only the hashes of this call
DeduplicateSavesSession(f, listings, persist) ==
    LET r == DedupeLoop(listings, LoadSeen(f), 1, <<<<>>, {}>>)
    IN  [ fresh |-> r[1], raised |-> FALSE,
          file |-> IF persist /\ r[2] # {} THEN SaveSeen(r[2]) ELSE f ]

\* deduplicate that ignores its persist argument
DeduplicateAlwaysSaves(f, listings, persist) ==
    LET seen == LoadSeen(f)
        r == DedupeLoop(listings, seen, 1, <<<<>>, {}>>)
    IN  [ fresh |-> r[1], raised |-> FALSE,
          file |-> IF r[2] # {} THEN SaveSeen(seen \cup r[2]) ELSE f ]

\* deduplicate(listings, persist) on state file f:
\* the list returned, whether it raised, and the state file afterwards
DeduplicateOn(f, listings, persist) ==
    LET seen == LoadSeen(f)
        r == DedupeLoop(listings, seen, 1, <<<<>>, {}>>)
        fresh == r[1]
        session_seen == r[2]
        save == persist /\ session_seen # {}
        updated == seen \cup session_seen
        raised == save /\ SortRaises(updated)
    IN  [ fresh  |-> IF raised THEN <<>> ELSE fresh,
          raised |-> raised,
          file   |-> IF save /\ ~raised THEN SaveSeen(updated) ELSE f ]

\* reset_state that leaves the file in place
ResetStateKeepsFile(f) == f

\* reset_state on state file f
ResetStateOn(f) == IF f.kind # "absent" THEN Absent ELSE f

\* ------------------------------------------------------------- state

VARIABLES
    file,       \* the state file data/seen_jobs.json
    calls,      \* the last two calls of the dedupe API, oldest first, each with
                \* its arguments, the state file before it and what it returned
    pc,         \* the position of the run
    raws,       \* the raw records collected, each with the name of its source
    listings,   \* the run's collection of listings
    args,       \* the command line of the run
    cfg,        \* the configuration of the run
    out,        \* what each output collaborator was called with
    log         \* the stages run and the accesses to the state file, in order

vars == <<file, calls, pc, raws, listings, args, cfg, out, log>>

\* the run's own variables, for the steps that are not steps of a run
run == <<args, cfg, out, log>>

\* argparse's defaults: jobradar run
DefaultArgs ==
    [ dry_run |-> FALSE, reset |-> FALSE, city |-> None,
      no_email |-> FALSE, no_markdown |-> FALSE ]

\* the configuration: locations.primary and filters.include_remote
Config(remote) ==
    [ primary |-> <<Cap("adelaide"), Cap("melbourne")>>, include_remote |-> remote ]

\* a collaborator that has not been called, and one called with the list ls
NotCalled == [called |-> FALSE, jobs |-> <<>>]
CalledWith(ls) == [called |-> TRUE, jobs |-> ls]

NoOutput ==
    [ save_csv |-> NotCalled, save_html |-> NotCalled,
      save_markdown |-> NotCalled, send_email |-> NotCalled ]

\* no run of the pipeline is in progress
NoRun ==
    /\ args = DefaultArgs
    /\ cfg = Config(FALSE)
    /\ out = NoOutput
    /\ log = <<>>

\* the raw records of the end-to-end scenario
RawA ==
    [ title    |-> Str(StrTitle(Txt(<<"graduate", " ", "software", " ", "engineer">>))),
      company  |-> Str(Cap("acme")),
      location |-> Str(Cap("melbourne")),
      url      |-> Str(Txt(<<"https", "://", "x", "/", "1">>)),
      summary  |-> Str(Txt(<<"visa", " ", "sponsor", "ship", " ", "available">>)) ]

RawB ==
    [ title    |-> Str(StrTitle(Txt(<<"senior", " ", "civil", " ", "engineer">>))),
      location |-> Str(Cap("adelaide")),
      url      |-> Str(Txt(<<"https", "://", "x", "/", "2">>)) ]

RawC == [RawA EXCEPT !.summary = Str(Txt(<<"apply", " ", "now">>))]

\* the listings the dedupe API is called with
Pool == {Normalize(RawA, "Seek"), Normalize(RawB, "Seek"), Normalize(RawC, "Seek")}

\* the longest list passed to deduplicate
MaxListings == 2

BoundedSeq(S, n) == UNION {[1..k -> S] : k \in 0..n}

\* the record of one call
Call(op, ls, persist, before, fresh, raised) ==
    [ op |-> op, listings |-> ls, persist |-> persist, before |-> before,
      fresh |-> fresh, raised |-> raised ]

Remember(c) == IF calls = <<>> THEN <<c>> ELSE <<calls[Len(calls)], c>>

\* a caller runs deduplicate(ls, persist)
Deduplicate ==
    \E ls \in BoundedSeq(Pool, MaxListings), persist \in BOOLEAN :
        LET r == DeduplicateOn(file, ls, persist)
        IN  /\ file' = r.file
            /\ calls' = Remember(Call("deduplicate", ls, persist, file, r.fresh, r.raised))
            /\ UNCHANGED <<pc, raws, listings, run>>

\* a caller runs reset_state()
ResetState ==
    /\ file' = ResetStateOn(file)
    /\ calls' = Remember(Call("reset_state", <<>>, FALSE, file, <<>>, FALSE))
    /\ UNCHANGED <<pc, raws, listings, run>>

\* the dedupe API from virgin state: no state file has ever been written
InitDedupe ==
    /\ NoRun
    /\ file = Absent
    /\ calls = <<>>
    /\ pc = "api"
    /\ raws = <<>>
    /\ listings = <<>>

NextDedupe == Deduplicate \/ ResetState

SpecDedupe == InitDedupe /\ [][NextDedupe]_vars

\* the state files a corruption (another writer, a bad edit) can leave behind
CorruptFiles ==
    { Invalid, Array(<<Num>>) }

IsCorrupt(f) == f.kind = "invalid" \/ \E i \in DOMAIN f.items : f.items[i].t # "str"

\* the dedupe API started on a missing or corrupted state file
InitCorrupt ==
    /\ NoRun
    /\ file \in {Absent} \cup CorruptFiles
    /\ calls = <<>>
    /\ pc = "api"
    /\ raws = <<>>
    /\ listings = <<>>

SpecCorrupt == InitCorrupt /\ [][NextDedupe]_vars

\* ------------------------------------------------------------ claims

Last == calls[Len(calls)]

HashSet(ls) == {Str(ls[i].hash_id) : i \in DOMAIN ls}

\* the listings of ls at the positions of K, in order
RECURSIVE Pick(_, _, _)
Pick(ls, K, i) ==
    IF i > Len(ls) THEN <<>>
    ELSE (IF i \in K THEN <<ls[i]>> ELSE <<>>) \o Pick(ls, K, i + 1)

\* the positions of ls whose hash is not in seen and occurs at no earlier position
NewPositions(ls, seen) ==
    { i \in DOMAIN ls :
        /\ Str(ls[i].hash_id) \notin seen
        /\ \A j \in 1..(i - 1) : ls[j].hash_id # ls[i].hash_id }

TwiceSameInput ==
    /\ Len(calls) = 2
    /\ calls[1].op = "deduplicate" /\ calls[2].op = "deduplicate"
    /\ calls[1].persist /\ calls[2].persist
    /\ calls[1].listings = calls[2].listings
    /\ calls[1].listings # <<>>
    /\ ~(HashSet(calls[1].listings) \subseteq LoadSeen(calls[1].before))

\* C1: deduplicate(L, persist=True) run twice in sequence on the same non-empty
\* L, whose hashes the persisted state did not hold, returns a non-empty list
\* the first time and the empty list the second time.
C1_DedupIdempotent ==
    TwiceSameInput => calls[1].fresh # <<>> /\ calls[2].fresh = <<>>

C1_Witness ==
    /\ TwiceSameInput
    /\ Len(calls[1].listings) = 2
    /\ calls[1].before # Absent

ResetThenDedupe ==
    /\ Len(calls) = 2
    /\ calls[1].op = "reset_state"
    /\ calls[2].op = "deduplicate"
    /\ calls[2].persist

\* C2 as stated: reset_state() followed by deduplicate(L, persist=True) returns
\* the full input L, whatever L is.
C2_ResetReturnsFullInput ==
    ResetThenDedupe => calls[2].fresh = calls[2].listings

\* C2, amended: reset_state() followed by deduplicate(L, persist=True) returns
\* the listings of L whose hash_id occurs at no earlier position of L (all of L
\* when its hash_ids are pairwise distinct) and leaves exactly their hashes
\* persisted, whatever was persisted before the reset; a call against virgin
\* state (no state file ever written) returns and persists the same.
C2_ResetRoundTrip ==
    /\ ResetThenDedupe =>
          /\ calls[2].fresh = Pick(calls[2].listings, NewPositions(calls[2].listings, {}), 1)
          /\ LoadSeen(file) = HashSet(calls[2].listings)
    /\ (Len(calls) = 1 /\ Last.op = "deduplicate" /\ Last.persist) =>
          /\ Last.before = Absent
          /\ Last.fresh = Pick(Last.listings, NewPositions(Last.listings, {}), 1)
          /\ LoadSeen(file) = HashSet(Last.listings)

C2_Witness ==
    /\ ResetThenDedupe
    /\ LoadSeen(calls[1].before) = HashSet(calls[2].listings)
    /\ Len(calls[2].fresh) = 2

\* C3: a hash in the persisted set stays in it over every call other than
\* reset_state(), and reset_state() leaves the persisted set empty.
C3_RecordedUntilReset ==
    [][ IF calls'[Len(calls')].op = "reset_state"
        THEN LoadSeen(file') = {}
        ELSE LoadSeen(file) \subseteq LoadSeen(file') ]_vars

C3_Witness ==
    /\ Len(calls) = 2
    /\ calls[1].op = "deduplicate" /\ calls[2].op = "deduplicate"
    /\ calls[2].persist /\ calls[2].fresh # <<>>
    /\ LoadSeen(calls[2].before) # {}
    /\ LoadSeen(calls[2].before) \subseteq LoadSeen(file)
    /\ LoadSeen(calls[2].before) # LoadSeen(file)

\* C4: deduplicate returns exactly the listings of its input, in input order,
\* whose hash_id is neither in the set loaded at the start of the call nor the
\* hash_id of an earlier listing of the same call; the hash_ids returned are
\* pairwise distinct and disjoint from the loaded set.
C4_FreshIsFirstNewOccurrences ==
    \A c \in {calls[i] : i \in DOMAIN calls} :
        c.op = "deduplicate" =>
            /\ c.fresh = Pick(c.listings, NewPositions(c.listings, LoadSeen(c.before)), 1)
            /\ \A i, j \in DOMAIN c.fresh : i # j => c.fresh[i].hash_id # c.fresh[j].hash_id
            /\ HashSet(c.fresh) \cap LoadSeen(c.before) = {}

C4_Witness ==
    /\ calls # <<>>
    /\ Last.op = "deduplicate"
    /\ Len(Last.listings) = 2
    /\ Last.listings[1] # Last.listings[2]
    /\ Last.listings[1].hash_id = Last.listings[2].hash_id
    /\ Last.fresh = <<Last.listings[1]>>
    /\ LoadSeen(Last.before) # {}

\* C5: after deduplicate with persist true and at least one listing accepted,
\* the state file holds exactly the loaded set united with the accepted hashes,
\* written whole as one sorted array; with persist false, or nothing accepted,
\* the state file is the one from before the call.
C5_PersistEffect ==
    \A i \in DOMAIN calls :
        LET c == calls[i]
            after == IF i = Len(calls) THEN file ELSE calls[i + 1].before
        IN  c.op = "deduplicate" =>
                IF c.persist /\ c.fresh # <<>>
                THEN /\ LoadSeen(after) = LoadSeen(c.before) \cup HashSet(c.fresh)
                     /\ after = Array(Sorted(LoadSeen(c.before) \cup HashSet(c.fresh)))
                ELSE after = c.before

C5_Witness ==
    /\ Len(calls) = 2
    /\ calls[1].op = "deduplicate" /\ calls[1].persist /\ calls[1].fresh # <<>>
    /\ calls[2].op = "deduplicate" /\ ~calls[2].persist /\ calls[2].fresh # <<>>
    /\ file = calls[2].before
    /\ Len(file.items) = 1

\* C6: deduplicate never raises because of the state file, and on an absent or
\* corrupt state file returns, and persists, what it would against the empty set.
C6_CorruptStateIsEmptyState ==
    \A i \in DOMAIN calls :
        LET c == calls[i]
            after == IF i = Len(calls) THEN file ELSE calls[i + 1].before
            kept == Pick(c.listings, NewPositions(c.listings, {}), 1)
        IN  c.op = "deduplicate" =>
                /\ ~c.raised
                /\ (c.before = Absent \/ IsCorrupt(c.before)) =>
                      /\ c.fresh = kept
                      /\ (c.persist /\ kept # <<>>) => after = Array(Sorted(HashSet(kept)))

\* ---------------------------------------------------- the visa scorer

\* every entry of the three tables, in the order score_job scans them
AllSignals == HARD_NEGATIVES \o SOFT_NEGATIVES \o POSITIVES

\* the pieces the scored texts are made of: every signal phrase, some of them
\* in another letter case, and text that is no signal
Fragments ==
    {AllSignals[i][1] : i \in DOMAIN AllSignals}
    \cup {StrTitle(HARD_NEGATIVES[1][1]), StrUpper(POSITIVES[1][1]), StrTitle(SOFT_NEGATIVES[2][1])}
    \cup {<<>>, Txt(<<"apply", " ", "now">>), Txt(<<"available">>), Txt(<<"clearance">>)}

\* the fragments every other fragment is combined with: a hard negative, a
\* soft negative and two positives
Mixers ==
    { HARD_NEGATIVES[3][1], SOFT_NEGATIVES[1][1], POSITIVES[3][1], POSITIVES[9][1] }

\* the most mixers that follow the first fragment of a summary
MaxMixers == 2

\* the fragments joined by single spaces
RECURSIVE JoinFragments(_)
JoinFragments(fs) ==
    IF fs = <<>> THEN <<>>
    ELSE IF Len(fs) = 1 THEN Head(fs)
    ELSE Head(fs) \o Txt(<<" ">>) \o JoinFragments(Tail(fs))

ScoredTitles ==
    { StrTitle(Txt(<<"software", " ", "developer">>)),
      StrTitle(Txt(<<"graduate", " ", "visa">>)) }

ScoredRaws ==
    { [title |-> Str(t), summary |-> Str(JoinFragments(<<f>> \o ms))] :
        t \in ScoredTitles, f \in Fragments, ms \in BoundedSeq(Mixers, MaxMixers) }

\* the records that can follow the first one: none, or one that scores high
Companions ==
    { <<>>, <<[title |-> Str(Cap("analyst")), summary |-> Str(POSITIVES[1][1])]>> }

\* a collection fresh from normalize: one listing, or two when the summary
\* of the first is a single fragment
InitScore ==
    /\ NoRun
    /\ file = Absent
    /\ calls = <<>>
    /\ pc = "built"
    /\ \E raw \in ScoredRaws, more \in Companions :
          /\ more # <<>> => raw.summary.s \in Fragments
          /\ raws = [i \in 1..(1 + Len(more)) |->
                        [raw |-> (<<raw>> \o more)[i], source |-> "Seek"]]
          /\ listings = [i \in 1..(1 + Len(more)) |->
                            Normalize((<<raw>> \o more)[i], "Seek")]

\* scored = score_all(fresh)
Score ==
    /\ pc = "built"
    /\ listings' = ScoreAll(listings)
    /\ pc' = "scored"
    /\ UNCHANGED <<file, calls, raws, run>>

SpecScore == InitScore /\ [][Score]_vars

\* C7: a listing built by normalize has visa_score -1 until it is scored, and
\* after score_all its visa_score is an integer from 0 to 5, whatever signal
\* phrases match.
C7_ScoreBounds ==
    \A i \in DOMAIN listings :
        IF pc = "built"
        THEN listings[i].visa_score = -1
        ELSE listings[i].visa_score \in 0..5

\* the deltas of the entries of AllSignals from i on whose phrase is in text
RECURSIVE MatchedDeltas(_, _)
MatchedDeltas(text, i) ==
    IF i > Len(AllSignals) THEN 0
    ELSE (IF StrIn(AllSignals[i][1], text) THEN AllSignals[i][2] ELSE 0)
         + MatchedDeltas(text, i + 1)

RawScore(job) == 2 + MatchedDeltas(StrLower(job.title \o Txt(<<" ">>) \o job.summary), 1)

C7_Witness ==
    /\ pc = "scored"
    /\ RawScore(listings[1]) > 5
    /\ listings[1].visa_score = 5

C7_WitnessLow ==
    /\ pc = "scored"
    /\ RawScore(listings[1]) < 0
    /\ listings[1].visa_score = 0

\* C8: score_job sets visa_score to 2 plus the deltas of every entry of the
\* three tables whose phrase is in the lower-cased "title summary", clamped
\* once, at the end, to 0..5.
C8_ScoreIsClampedSum ==
    pc = "scored" =>
        \A i \in DOMAIN listings :
            LET raw == RawScore(listings[i])
            IN  listings[i].visa_score = (IF raw < 0 THEN 0 ELSE IF raw > 5 THEN 5 ELSE raw)

\* a hard negative and a positive both fire: clamping after each delta, or
\* stopping at the first match, would give another score
C8_Witness ==
    /\ pc = "scored"
    /\ \E i \in DOMAIN HARD_NEGATIVES, j \in DOMAIN POSITIVES :
          LET text == StrLower(listings[1].title \o Txt(<<" ">>) \o listings[1].summary)
          IN  StrIn(HARD_NEGATIVES[i][1], text) /\ StrIn(POSITIVES[j][1], text)
    /\ listings[1].visa_score = 1

\* ------------------------------------------------------ the content hash

\* the most whitespace characters on either side of a url
MaxPad == 1

BaseUrls == {<<>>, Txt(<<"https", "://", "x", "/", "1">>), Txt(<<"https", "://", "x", "/", "2">>)}

\* the url as connectors deliver it: in either letter case, padded with whitespace
UrlForms(u) ==
    { lp \o v \o rp :
        lp \in BoundedSeq({<<"\t", "l">>}, MaxPad),
        rp \in BoundedSeq({<<" ", "l">>}, MaxPad),
        v \in {u, StrUpper(u)} }

HashTitles == {Cap("analyst"), StrTitle(Txt(<<"data", " ", "analyst">>))}

FirstRaws ==
    { [ raw |-> [ title |-> Str(t), company |-> Str(Cap("acme")),
                  location |-> Str(Cap("melbourne")), url |-> Str(lp \o u),
                  summary |-> Str(Txt(<<"apply", " ", "now">>)) ],
        source |-> "Seek" ] :
        t \in HashTitles, u \in BaseUrls, lp \in {<<>>, Txt(<<" ">>)} }

SecondRaws ==
    { [ raw |-> [title |-> Str(t), url |-> Str(v)] @@ rest, source |-> src ] :
        t \in HashTitles,
        v \in UNION {UrlForms(u) : u \in BaseUrls},
        src \in {"Seek", "CompanyCareers"},
        rest \in { [company |-> Str(Cap("acme")), location |-> Str(Cap("melbourne"))],
                   [location |-> Str(Cap("melbourne"))],
                   [company |-> Str(Cap("acme")), location |-> Str(Cap("perth"))] } }

\* two raw records arrive
InitHash ==
    /\ NoRun
    /\ file = Absent
    /\ calls = <<>>
    /\ pc = "collect"
    /\ \E r1 \in FirstRaws, r2 \in SecondRaws : raws = <<r1, r2>>
    /\ listings = <<>>

\* normalize(raw, source) on every record
NormalizeAll ==
    /\ pc = "collect"
    /\ listings' = [i \in DOMAIN raws |-> Normalize(raws[i].raw, raws[i].source)]
    /\ pc' = "built"
    /\ UNCHANGED <<file, calls, raws, run>>

SpecHash == InitHash /\ [][NormalizeAll]_vars

\* the text between the first and the last character that is not whitespace
Core(s) ==
    LET solid == {i \in DOMAIN s : s[i][1] \notin {" ", "\t"}}
    IN  IF solid = {} THEN <<>>
        ELSE SubSeq(s, CHOOSE i \in solid : \A j \in solid : i <= j,
                       CHOOSE i \in solid : \A j \in solid : i >= j)

\* equal up to letter case and surrounding whitespace
SameUpToCaseAndSpace(a, b) ==
    /\ Len(Core(a)) = Len(Core(b))
    /\ \A i \in DOMAIN Core(a) : Core(a)[i][1] = Core(b)[i][1]

UrlOf(i) == IF "url" \in DOMAIN raws[i].raw THEN raws[i].raw.url.s ELSE <<>>

SameIdentityFields ==
    \A k \in {"title", "company", "location"} :
        /\ k \in DOMAIN raws[1].raw <=> k \in DOMAIN raws[2].raw
        /\ k \in DOMAIN raws[1].raw => raws[1].raw[k] = raws[2].raw[k]

\* C9 as stated: two raw records whose urls are identical up to letter case
\* and surrounding whitespace normalize to listings with equal hash_id.
C9_SameUrlSameHash ==
    (pc = "built" /\ SameUpToCaseAndSpace(UrlOf(1), UrlOf(2)))
        => listings[1].hash_id = listings[2].hash_id

\* C9, amended: two raw records whose urls are identical up to letter case and
\* surrounding whitespace, and not empty once the whitespace is removed,
\* normalize to listings with equal hash_id, whatever their other fields; two
\* records with empty or blank url and identical title, company and location
\* normalize to listings with equal hash_id.
C9_HashDeterminism ==
    pc = "built" =>
        /\ (SameUpToCaseAndSpace(UrlOf(1), UrlOf(2)) /\ Core(UrlOf(1)) # <<>>)
              => listings[1].hash_id = listings[2].hash_id
        /\ (Core(UrlOf(1)) = <<>> /\ Core(UrlOf(2)) = <<>> /\ SameIdentityFields)
              => listings[1].hash_id = listings[2].hash_id

C9_Witness ==
    /\ pc = "built"
    /\ UrlOf(1) # UrlOf(2)
    /\ SameUpToCaseAndSpace(UrlOf(1), UrlOf(2))
    /\ Core(UrlOf(1)) # <<>>
    /\ raws[1].raw.title # raws[2].raw.title
    /\ raws[1].source # raws[2].source
    /\ listings[1].hash_id = listings[2].hash_id

C9_WitnessNoUrl ==
    /\ pc = "built"
    /\ UrlOf(1) = <<>> /\ UrlOf(2) = <<>>
    /\ SameIdentityFields
    /\ listings[1].summary # listings[2].summary
    /\ listings[1].hash_id = listings[2].hash_id

\* ------------------------------------------------ __main__.py: filters

\* the regex  .  : a pattern element matching any one character
Any1 == <<".", "?">>

\* the pattern matches text at position i, element by element
PatMatchAt(text, pat, i) ==
    /\ i + Len(pat) - 1 <= Len(text)
    /\ \A k \in 1..Len(pat) :
          IF pat[k] = Any1 THEN Len(text[i + k - 1][1]) = 1 ELSE text[i + k - 1] = pat[k]

\* the regex \b before position p of text: a \w character on exactly one side
WordBoundary(text, p) ==
    (p > 1 /\ IsWordChar(text[p - 1])) # (p <= Len(text) /\ IsWordChar(text[p]))

\* the search without the two \b
ReSearchAnywhere(pats, text) ==
    \E pat \in pats : \E i \in 1..Len(text) : PatMatchAt(text, pat, i)

\* re.compile(r"\b(p1|p2|...)\b", re.I).search(text) for lower-case text
ReSearchWords(pats, text) ==
    \E pat \in pats : \E i \in 1..Len(text) :
        /\ PatMatchAt(text, pat, i)
        /\ WordBoundary(text, i)
        /\ WordBoundary(text, i + Len(pat))

\* a.?b : a and b with at most one character between them
Opt(a, b) == {Txt(a) \o Txt(b), Txt(a) \o <<Any1>> \o Txt(b)}

\* _LEVEL_PATTERNS
LEVEL_PATTERNS ==
    { Txt(<<"graduate">>), Txt(<<"junior">>), Txt(<<"entry", " ", "level">>),
      Txt(<<"entry", "-", "level">>), Txt(<<"associate">>),
      Txt(<<"early", " ", "career">>), Txt(<<"cadet">>), Txt(<<"intern">>) }

\* _TECH_ROLE_PATTERNS
TECH_ROLE_PATTERNS ==
    { Txt(<<"software", " ", "engineer">>), Txt(<<"software", " ", "developer">>),
      Txt(<<"software", " ", "engineer", "ing">>),
      Txt(<<"developer">>), Txt(<<"devops">>), Txt(<<"backend">>), Txt(<<"frontend">>),
      Txt(<<"full", " ", "stack">>), Txt(<<"full", "stack">>),
      Txt(<<"web", " ", "developer">>), Txt(<<"mobile", " ", "developer">>),
      Txt(<<"cloud", " ", "engineer">>), Txt(<<"platform", " ", "engineer">>),
      Txt(<<"data", " ", "engineer">>), Txt(<<"data", " ", "analyst">>),
      Txt(<<"data", " ", "scientist">>), Txt(<<"data", " ", "analytics">>),
      Txt(<<"cyber">>), Txt(<<"cyber", "security">>),
      Txt(<<"information", " ", "security">>), Txt(<<"network", " ", "engineer">>),
      Txt(<<"systems", " ", "engineer">>), Txt(<<"computer", " ", "science">>),
      Txt(<<"it", " ", "graduate">>), Txt(<<"it", " ", "program">>),
      Txt(<<"architect">>),
      Txt(<<"technology", " ", "graduate">>), Txt(<<"tech", " ", "graduate">>),
      Txt(<<"technology", " ", "program">>),
      Txt(<<"technology", " ", "intern", "ship">>), Txt(<<"tech", " ", "intern", "ship">>),
      Txt(<<"software">>), Txt(<<"technology">>), Txt(<<"data">>), Txt(<<"analytics">>),
      Txt(<<"digital">>),
      Txt(<<"information", " ", "technology">>), Txt(<<"information", " ", "systems">>) }

\* _NON_IT_TITLE_WORDS
NON_IT_TITLE_WORDS ==
    { Txt(<<"civil">>), Txt(<<"mechanical">>), Txt(<<"hydro">>), Txt(<<"structural">>),
      Txt(<<"geotechnical">>), Txt(<<"mining">>), Txt(<<"chemical">>),
      Txt(<<"electrical", " ", "wiring">>), Txt(<<"audit">>), Txt(<<"accounting">>),
      Txt(<<"actuari">>), Txt(<<"banking">>), Txt(<<"finance">>),
      Txt(<<"financial", " ", "planning">>), Txt(<<"wealth">>), Txt(<<"insurance">>),
      Txt(<<"legal">>), Txt(<<"law">>), Txt(<<"nursing">>), Txt(<<"medical">>),
      Txt(<<"pharmacy">>), Txt(<<"physiother">>), Txt(<<"dental">>), Txt(<<"clinical">>) }

\* _SENIOR_TITLE_WORDS
SENIOR_TITLE_WORDS ==
    { Txt(<<"senior">>), Txt(<<"sr">>), Txt(<<"lead">>), Txt(<<"principal">>),
      Txt(<<"staff">>), Txt(<<"manager">>), Txt(<<"director">>),
      Txt(<<"head", " ", "of">>), Txt(<<"vp">>), Txt(<<"vice", " ", "president">>),
      Txt(<<"chief">>), Txt(<<"experienced">>) }
    \cup Opt(<<"mid">>, <<"level">>)

\* _STRONG_TECH_TITLES
STRONG_TECH_TITLES ==
    { Txt(<<"software", " ", "engineer">>), Txt(<<"software", " ", "developer">>),
      Txt(<<"full", "stack">>), Txt(<<"devops">>), Txt(<<"backend">>), Txt(<<"frontend">>),
      Txt(<<"web", " ", "developer">>), Txt(<<"mobile", " ", "developer">>),
      Txt(<<"data", " ", "engineer">>), Txt(<<"data", " ", "analyst">>),
      Txt(<<"data", " ", "scientist">>), Txt(<<"cloud", " ", "engineer">>),
      Txt(<<"platform", " ", "engineer">>),
      Txt(<<"machine", " ", "learning", " ", "engineer">>), Txt(<<"ml", " ", "engineer">>),
      Txt(<<"systems", " ", "engineer">>), Txt(<<"network", " ", "engineer">>),
      Txt(<<"cyber">>), Txt(<<"cyber", "security">>),
      Txt(<<"developer">>), Txt(<<"program", "mer">>) }
    \cup Opt(<<"full">>, <<"stack">>)

\* the sources whose listings need no level keyword
PRE_TARGETED == {"CompanyCareers", "GovtCareers"}

\* _is_relevant with a strong IT title overriding the two exclusions
IsRelevantStrongOverrides(j) ==
    LET title == StrLower(j.title)
        combined == Join2(title, " ", StrLower(j.summary))
        excluded == \/ ReSearchWords(NON_IT_TITLE_WORDS, title)
                    \/ ReSearchWords(SENIOR_TITLE_WORDS, title)
        has_level == ReSearchWords(LEVEL_PATTERNS, combined)
        has_role == ReSearchWords(TECH_ROLE_PATTERNS, combined)
        strong_tech == ReSearchWords(STRONG_TECH_TITLES, title)
    IN  IF excluded /\ ~strong_tech THEN FALSE
        ELSE IF j.source \in PRE_TARGETED THEN has_role
        ELSE (has_role \/ strong_tech) /\ (has_level \/ strong_tech)

\* _is_relevant asking for a role phrase and a level keyword, strong title or not
IsRelevantNeedsBoth(j) ==
    LET title == StrLower(j.title)
        combined == Join2(title, " ", StrLower(j.summary))
        excluded == \/ ReSearchWords(NON_IT_TITLE_WORDS, title)
                    \/ ReSearchWords(SENIOR_TITLE_WORDS, title)
        has_level == ReSearchWords(LEVEL_PATTERNS, combined)
        has_role == ReSearchWords(TECH_ROLE_PATTERNS, combined)
    IN  IF excluded THEN FALSE
        ELSE IF j.source \in PRE_TARGETED THEN has_role
        ELSE has_role /\ has_level

\* _is_relevant without the branch for the pre-targeted sources
IsRelevantAnySource(j) ==
    LET title == StrLower(j.title)
        combined == Join2(title, " ", StrLower(j.summary))
        excluded == \/ ReSearchWords(NON_IT_TITLE_WORDS, title)
                    \/ ReSearchWords(SENIOR_TITLE_WORDS, title)
        has_level == ReSearchWords(LEVEL_PATTERNS, combined)
        has_role == ReSearchWords(TECH_ROLE_PATTERNS, combined)
        strong_tech == ReSearchWords(STRONG_TECH_TITLES, title)
    IN  IF excluded THEN FALSE
        ELSE (has_role \/ strong_tech) /\ (has_level \/ strong_tech)

\* _is_relevant
IsRelevant(j) ==
    LET title == StrLower(j.title)
        summary == StrLower(j.summary)
        combined == Join2(title, " ", summary)
        has_non_it == ReSearchWords(NON_IT_TITLE_WORDS, title)
        has_senior == ReSearchWords(SENIOR_TITLE_WORDS, title)
        has_level == ReSearchWords(LEVEL_PATTERNS, combined)
        has_role == ReSearchWords(TECH_ROLE_PATTERNS, combined)
        strong_tech == ReSearchWords(STRONG_TECH_TITLES, title)
    IN  IF has_non_it \/ has_senior THEN FALSE
        ELSE IF j.source \in PRE_TARGETED THEN has_role
        ELSE (has_role \/ strong_tech) /\ (has_level \/ strong_tech)

\* _RESUME_HARD_EXCLUDE
RESUME_HARD_EXCLUDE ==
    { Txt(<<"ios">>), Txt(<<"swift">>), Txt(<<"ruby", " ", "on", " ", "rails">>),
      Txt(<<"laravel">>), Txt(<<"php">>), Txt(<<"mulesoft">>), Txt(<<"salesforce">>),
      Txt(<<"zoho">>), Txt(<<"deluge">>), Txt(<<"objectstar">>), Txt(<<"cobol">>),
      Txt(<<"abap">>), Txt(<<"mainframe">>), Txt(<<"flutter">>), Txt(<<"dart">>),
      Txt(<<"kotlin">>), Txt(<<"embedded">>), Txt(<<"firmware">>), Txt(<<"fpga">>),
      Txt(<<"vhdl">>), Txt(<<"verilog">>), Txt(<<"sap">>), Txt(<<"servicenow">>),
      Txt(<<"pega">>), Txt(<<"mendix">>), Txt(<<"outsystems">>) }
    \cup Opt(<<"objective">>, <<"c">>)

\* _fits_resume searching the title only
FitsResumeTitleOnly(j) ==
    ~ReSearchWords(RESUME_HARD_EXCLUDE, StrLower(j.title))

\* _fits_resume
FitsResume(j) ==
    ~ReSearchWords(RESUME_HARD_EXCLUDE, StrLower(Join2(j.title, " ", j.summary)))

\* the location test of run_pipeline's location filter
InTargetLocation(j, location_lower) ==
    \/ StrLower(j.location) = Txt(<<"australia">>)
    \/ \E loc \in location_lower : StrIn(loc, StrLower(j.location))


\* -------------------------------------------- __main__.py: run_pipeline

\* city_map.get(args.city.lower())
CityMapGet(key) ==
    IF key = Txt(<<"adelaide">>) THEN Str(Cap("adelaide"))
    ELSE IF key = Txt(<<"melbourne">>) THEN Str(Cap("melbourne"))
    ELSE None

\* if args.city
HasCity(a) == a.city # None /\ a.city.s # <<>>

\* the --city value names no known city: the run exits with status 1
UnknownCity(a) == HasCity(a) /\ CityMapGet(StrLower(a.city.s)) = None

\* locations: the one city of --city, or the configured primary locations
Locations(a, c) ==
    IF HasCity(a) THEN <<CityMapGet(StrLower(a.city.s)).s>> ELSE c.primary

\* location_lower built from the configured locations, whatever --city says
LocationLowerIgnoringCity(a, c) ==
    {StrLower(c.primary[i]) : i \in DOMAIN c.primary}
    \cup (IF c.include_remote THEN {Txt(<<"remote">>), Txt(<<"hybrid">>)} ELSE {})

\* location_lower
LocationLower(a, c) ==
    {StrLower(Locations(a, c)[i]) : i \in DOMAIN Locations(a, c)}
    \cup (IF c.include_remote THEN {Txt(<<"remote">>), Txt(<<"hybrid">>)} ELSE {})

\* normalize_many with the try around the whole loop instead of inside it
RECURSIVE NormalizeManyStopsAtBad(_, _)
NormalizeManyStopsAtBad(rs, i) ==
    IF i > Len(rs) \/ NormalizeRaises(rs[i].raw) THEN <<>>
    ELSE <<Normalize(rs[i].raw, rs[i].source) @@ [id |-> i]>>
         \o NormalizeManyStopsAtBad(rs, i + 1)

\* normalize_many over everything the connectors returned, from record i on:
\* a record on which normalize raises is skipped; id, the position of the raw
\* record, stands for the identity of the JobListing object built from it
RECURSIVE NormalizeMany(_, _)
NormalizeMany(rs, i) ==
    IF i > Len(rs) THEN <<>>
    ELSE (IF NormalizeRaises(rs[i].raw) THEN <<>>
          ELSE <<Normalize(rs[i].raw, rs[i].source) @@ [id |-> i]>>)
         \o NormalizeMany(rs, i + 1)

\* the lower-cased titles of the model in ascending order (the order of str <)
TitleOrder ==
    << Txt(<<"associate", " ", "developer">>),
       Txt(<<"graduate", " ", "data", " ", "analyst">>),
       Txt(<<"graduate", " ", "software", " ", "engineer">>),
       Txt(<<"senior", " ", "civil", " ", "engineer">>),
       Txt(<<"software", " ", "engineer">>) >>

TitleRank(t) == CHOOSE i \in DOMAIN TitleOrder : TitleOrder[i] = t

\* the sort key without the title
KeyLessScoreOnly(x, y) == x.visa_score > y.visa_score

\* key(x) < key(y) for key = lambda j: (-j.visa_score, j.title.lower())
KeyLess(x, y) ==
    \/ x.visa_score > y.visa_score
    \/ /\ x.visa_score = y.visa_score
       /\ TitleRank(StrLower(x.title)) < TitleRank(StrLower(y.title))

\* x put into the sorted list ls behind every element whose key is not greater
RECURSIVE Insert(_, _)
Insert(x, ls) ==
    IF ls = <<>> THEN <<x>>
    ELSE IF KeyLess(x, Head(ls)) THEN <<x>> \o ls
    ELSE <<Head(ls)>> \o Insert(x, Tail(ls))

\* list.sort(key=...): a stable sort
RECURSIVE SortByKey(_)
SortByKey(ls) ==
    IF ls = <<>> THEN <<>>
    ELSE Insert(ls[Len(ls)], SortByKey(SubSeq(ls, 1, Len(ls) - 1)))

\* run_pipeline going from the relevance filter straight to deduplicate
AfterSkippingResume(ls, next) ==
    IF ls = <<>> THEN "done" ELSE IF next = "resume_filter" THEN "deduplicate" ELSE next

\* run_pipeline without its  if not all_listings: return
AfterNeverReturns(ls, next) == next

\* the stage after a filter: the run returns when nothing is left
After(ls, next) == IF ls = <<>> THEN "done" ELSE next

\* if args.reset: reset_state()
RunReset ==
    /\ pc = "start"
    /\ file' = IF args.reset THEN ResetStateOn(file) ELSE file
    /\ log' = IF ~args.reset THEN log
              ELSE IF file.kind # "absent" THEN log \o <<"reset_state", "unlink">>
              ELSE Append(log, "reset_state")
    /\ pc' = "locations"
    /\ UNCHANGED <<calls, raws, listings, args, cfg, out>>

\* 1. determine the active locations, or exit on an unknown --city
RunLocations ==
    /\ pc = "locations"
    /\ pc' = IF UnknownCity(args) THEN "exit" ELSE "collect"
    /\ log' = Append(log, "locations")
    /\ UNCHANGED <<file, calls, raws, listings, args, cfg, out>>

\* 2. collect: every connector's records go through normalize_many
RunCollect ==
    /\ pc = "collect"
    /\ listings' = NormalizeMany(raws, 1)
    /\ pc' = After(listings', "location_filter")
    /\ log' = Append(log, "normalize")
    /\ UNCHANGED <<file, calls, raws, args, cfg, out>>

\* 3. the location filter
RunLocationFilter ==
    /\ pc = "location_filter"
    /\ listings' = SelectSeq(listings, LAMBDA j : InTargetLocation(j, LocationLower(args, cfg)))
    /\ pc' = After(listings', "relevance_filter")
    /\ log' = Append(log, "location_filter")
    /\ UNCHANGED <<file, calls, raws, args, cfg, out>>

\* 4b. the role relevance filter
RunRelevanceFilter ==
    /\ pc = "relevance_filter"
    /\ listings' = SelectSeq(listings, LAMBDA j : j.title # <<>> /\ IsRelevant(j))
    /\ pc' = After(listings', "resume_filter")
    /\ log' = Append(log, "relevance_filter")
    /\ UNCHANGED <<file, calls, raws, args, cfg, out>>

\* run_pipeline without the resume fit filter
RunResumeFilterKeepsAll ==
    /\ pc = "resume_filter"
    /\ listings' = listings
    /\ pc' = After(listings', "deduplicate")
    /\ log' = Append(log, "resume_filter")
    /\ UNCHANGED <<file, calls, raws, args, cfg, out>>

\* 4c. the resume fit filter
RunResumeFilter ==
    /\ pc = "resume_filter"
    /\ listings' = SelectSeq(listings, FitsResume)
    /\ pc' = After(listings', "deduplicate")
    /\ log' = Append(log, "resume_filter")
    /\ UNCHANGED <<file, calls, raws, args, cfg, out>>

\* 5. fresh = deduplicate(all_listings, persist=not args.dry_run)
RunDeduplicate ==
    /\ pc = "deduplicate"
    /\ LET persist == ~args.dry_run
           r == DeduplicateOn(file, listings, persist)
       IN  /\ file' = r.file
           /\ listings' = r.fresh
           /\ calls' = Remember(Call("deduplicate", listings, persist, file, r.fresh, r.raised))
           /\ pc' = IF r.raised THEN "raised" ELSE After(r.fresh, "score")
           /\ log' = log \o <<"deduplicate", "read">>
                         \o (IF r.file # file THEN <<"write">> ELSE <<>>)
    /\ UNCHANGED <<raws, args, cfg, out>>

\* scored = score_all(fresh)
RunScore ==
    /\ pc = "score"
    /\ listings' = ScoreAll(listings)
    /\ pc' = "sort"
    /\ log' = Append(log, "score")
    /\ UNCHANGED <<file, calls, raws, args, cfg, out>>

\* scored.sort(key=lambda j: (-j.visa_score, j.title.lower()))
RunSort ==
    /\ pc = "sort"
    /\ listings' = SortByKey(listings)
    /\ pc' = "save"
    /\ log' = Append(log, "sort")
    /\ UNCHANGED <<file, calls, raws, args, cfg, out>>

\* save_csv, save_html and, unless --no-markdown, save_markdown
RunSave ==
    /\ pc = "save"
    /\ out' = [out EXCEPT !.save_csv = CalledWith(listings),
                          !.save_html = CalledWith(listings),
                          !.save_markdown =
                              IF args.no_markdown THEN NotCalled ELSE CalledWith(listings)]
    /\ pc' = "email"
    /\ log' = Append(log, "output")
    /\ UNCHANGED <<file, calls, raws, listings, args, cfg>>

\* send_email, unless --dry-run or --no-email
RunEmail ==
    /\ pc = "email"
    /\ out' = [out EXCEPT !.send_email =
                  IF args.dry_run \/ args.no_email THEN NotCalled ELSE CalledWith(listings)]
    /\ pc' = "done"
    /\ log' = Append(log, "email")
    /\ UNCHANGED <<file, calls, raws, listings, args, cfg>>

\* the most raw records the connectors return in one run
MaxRaws == 2

\* the raw records a connector can return, in the order run_pipeline calls
\* the connectors: GradConnection, Seek, LinkedIn, CompanyCareers, Jora,
\* EmailAlerts
RawPool ==
    << [ raw |-> [ title    |-> Str(StrTitle(Txt(<<"graduate", " ", "data", " ", "analyst">>))),
                   company  |-> Str(Cap("initech")),
                   location |-> Str(Cap("australia")),
                   url      |-> Str(Txt(<<"https", "://", "x", "/", "3">>)),
                   summary  |-> Str(Txt(<<"must", " ", "be", " ", "an", " ",
                                          "australia", "n", " ", "citizen">>)) ],
         source |-> "GradConnection" ],
       [ raw |-> RawA, source |-> "Seek" ],
       [ raw |-> RawB, source |-> "Seek" ],
       [ raw |-> RawC, source |-> "LinkedIn" ],
       [ raw |-> [ title    |-> Str(Txt(<<" ">>) \o StrTitle(Txt(<<"software", " ", " ", "engineer">>))),
                   location |-> Str(Txt(<<"melbourne", " ", "vic">>)),
                   summary  |-> Str(StrTitle(Txt(<<"flutter", " ", "developer">>))) ],
         source |-> "CompanyCareers" ],
       [ raw |-> [ title    |-> Str(StrTitle(Txt(<<"associate", " ", "developer">>))),
                   company  |-> Str(Cap("acme")),
                   location |-> Str(Txt(<<"remote">>)),
                   url      |-> Str(Txt(<<"https", "://", "x", "/", "2">>)) ],
         source |-> "Jora" ],
       [ raw |-> [ title |-> None, url |-> Str(Txt(<<"https", "://", "x", "/", "1">>)) ],
         source |-> "EmailAlerts" ] >>

\* what the connectors return in one run: up to MaxRaws records of the pool,
\* in the order of the connectors
RawLists ==
    { SelectSeq(RawPool, LAMBDA r : r \in S) :
        S \in {T \in SUBSET {RawPool[i] : i \in DOMAIN RawPool} : Cardinality(T) <= MaxRaws} }

\* the command lines:  jobradar run [--dry-run] [--reset] [--city C]
\* [--no-email] [--no-markdown]
ArgSets ==
    [ dry_run : BOOLEAN, reset : BOOLEAN,
      city : {None, Str(Cap("melbourne")), Str(Txt(<<"perth">>))},
      no_email : BOOLEAN, no_markdown : BOOLEAN ]

\* the state files a run can find: none, or the one an earlier run wrote
\* after reporting the listing of RawA
StateFiles == {Absent, SaveSeen({Str(Normalize(RawA, "Seek").hash_id)})}

\* a run of the pipeline starts
InitPipeline ==
    /\ file \in StateFiles
    /\ calls = <<>>
    /\ pc = "start"
    /\ raws \in RawLists
    /\ listings = <<>>
    /\ args \in ArgSets
    /\ cfg \in {Config(FALSE), Config(TRUE)}
    /\ out = NoOutput
    /\ log = <<>>

NextPipeline ==
    \/ RunReset
    \/ RunLocations
    \/ RunCollect
    \/ RunLocationFilter
    \/ RunRelevanceFilter
    \/ RunResumeFilter
    \/ RunDeduplicate
    \/ RunScore
    \/ RunSort
    \/ RunSave
    \/ RunEmail

SpecPipeline == InitPipeline /\ [][NextPipeline]_vars

\* the hash_id the listing with identity id was constructed with
HashAtConstruction(id) == Normalize(raws[id].raw, raws[id].source).hash_id

\* C10: the hash_id of a listing has, in every state of the run after its
\* construction, the value computed at construction: no filter, deduplicate,
\* score_job or the sort changes it, and every output collaborator receives it.
C10_HashImmutable ==
    /\ \A i \in DOMAIN listings : listings[i].hash_id = HashAtConstruction(listings[i].id)
    /\ \A k \in DOMAIN out : out[k].called =>
          /\ Len(out[k].jobs) = Len(listings)
          /\ \A i \in DOMAIN listings :
                /\ out[k].jobs[i].id = listings[i].id
                /\ out[k].jobs[i].hash_id = listings[i].hash_id

\* two listings were scored (visa_score and visa_reason rewritten), reordered
\* by the sort and handed to the email collaborator
C10_Witness ==
    /\ pc = "done"
    /\ Len(out.send_email.jobs) = 2
    /\ out.send_email.jobs[1].id > out.send_email.jobs[2].id
    /\ \A i \in 1..2 : out.send_email.jobs[i].visa_score # NotScored

\* ------------------------------------- the relevance and resume filters

\* the most parts a title is made of
MaxTitleParts == 2

\* the parts of the titles: words of the two exclusion patterns, level
\* keywords alone and inside a longer word, role phrases, strong IT titles
\* that are role phrases and strong IT titles that are not, and neutral words
TitleParts ==
    { Cap("senior"), Cap("civil"), Cap("graduate"),
      StrTitle(Txt(<<"under", "graduate">>)),
      StrTitle(Txt(<<"software", " ", "engineer">>)),
      StrTitle(Txt(<<"program", "mer">>)),
      Cap("data"),
      StrTitle(Txt(<<"research", " ", "assistant">>)),
      StrTitle(Txt(<<"full", "-", "stack">>)) }

FilterTitles == {JoinFragments(fs) : fs \in BoundedSeq(TitleParts, MaxTitleParts)}

FilterSummaries ==
    { <<>>,
      StrTitle(Txt(<<"flutter", " ", "developer">>)),
      Txt(<<"junior", " ", "technology">>),
      Txt(<<"swift", "ly">>),
      Txt(<<"senior", " ", "civil">>) }

FilterRaws ==
    { [ raw |-> [ title |-> Str(t), location |-> Str(Cap("melbourne")), summary |-> Str(su) ],
        source |-> src ] :
        t \in FilterTitles, su \in FilterSummaries,
        src \in {"Seek", "CompanyCareers", "GovtCareers"} }

\* a default run that has collected one listing and kept it at the location
\* filter
InitFilters ==
    /\ file = Absent
    /\ calls = <<>>
    /\ pc = "relevance_filter"
    /\ \E r \in FilterRaws : raws = <<r>>
    /\ listings = NormalizeMany(raws, 1)
    /\ args = DefaultArgs
    /\ cfg = Config(FALSE)
    /\ out = NoOutput
    /\ log = <<"locations", "normalize", "location_filter">>

NextFilters == RunRelevanceFilter \/ RunResumeFilter

SpecFilters == InitFilters /\ [][NextFilters]_vars

\* the last thing the run did
AfterStage(stage) == log # <<>> /\ log[Len(log)] = stage

\* the listings as normalize built them
Built == NormalizeMany(raws, 1)

BuiltSet == LET b == Built IN {b[i] : i \in DOMAIN b}

\* the listing is in the run's collection
Passed(x) == \E i \in DOMAIN listings : listings[i].id = x.id

LowerTitle(x) == StrLower(x.title)
Combined(x) == StrLower(x.title) \o Txt(<<" ">>) \o StrLower(x.summary)

TitleExcluded(x) ==
    \/ ReSearchWords(NON_IT_TITLE_WORDS, LowerTitle(x))
    \/ ReSearchWords(SENIOR_TITLE_WORDS, LowerTitle(x))

HasRole(x) == ReSearchWords(TECH_ROLE_PATTERNS, Combined(x))
HasLevel(x) == ReSearchWords(LEVEL_PATTERNS, Combined(x))
StrongTitle(x) == ReSearchWords(STRONG_TECH_TITLES, LowerTitle(x))

C12_StandardSourceRule ==
    AfterStage("relevance_filter") => \A x \in BuiltSet :
        (x.source \notin PRE_TARGETED /\ x.title # <<>> /\ ~TitleExcluded(x))
            => (Passed(x) <=> /\ (HasRole(x) \/ StrongTitle(x))
                              /\ (HasLevel(x) \/ StrongTitle(x)))

\* a standard-source listing accepted on its strong IT title alone, with no
\* role phrase and no level keyword
C12_Witness ==
    /\ AfterStage("relevance_filter")
    /\ \E i \in DOMAIN Built :
          /\ Built[i].source \notin PRE_TARGETED
          /\ StrongTitle(Built[i]) /\ ~HasRole(Built[i]) /\ ~HasLevel(Built[i])
          /\ Passed(Built[i])

\* a standard-source listing with a role phrase and no level keyword, rejected
C12_WitnessRejected ==
    /\ AfterStage("relevance_filter")
    /\ \E i \in DOMAIN Built :
          /\ Built[i].source \notin PRE_TARGETED
          /\ ~TitleExcluded(Built[i])
          /\ HasRole(Built[i]) /\ ~HasLevel(Built[i]) /\ ~StrongTitle(Built[i])
          /\ ~Passed(Built[i])

\* C13: a listing from CompanyCareers or GovtCareers with a non-empty title
\* that matches no exclusion pattern passes the relevance filter iff a role
\* phrase matches the combined text: no level keyword is needed, and a strong
\* IT title without a role phrase is not enough.
C13_PreTargetedRule ==
    AfterStage("relevance_filter") => \A x \in BuiltSet :
        (x.source \in PRE_TARGETED /\ x.title # <<>> /\ ~TitleExcluded(x))
            => (Passed(x) <=> HasRole(x))

\* a pre-targeted listing with a strong IT title and a level keyword but no
\* role phrase, rejected
C13_Witness ==
    /\ AfterStage("relevance_filter")
    /\ \E i \in DOMAIN Built :
          /\ Built[i].source \in PRE_TARGETED
          /\ ~TitleExcluded(Built[i])
          /\ StrongTitle(Built[i]) /\ HasLevel(Built[i]) /\ ~HasRole(Built[i])
          /\ ~Passed(Built[i])

\* a pre-targeted listing with a role phrase and no level keyword, accepted
C13_WitnessAccepted ==
    /\ AfterStage("relevance_filter")
    /\ \E i \in DOMAIN Built :
          /\ Built[i].source \in PRE_TARGETED
          /\ HasRole(Built[i]) /\ ~HasLevel(Built[i]) /\ ~StrongTitle(Built[i])
          /\ Passed(Built[i])

\* every occurrence of kw in text has a letter or digit right before or right
\* after it: kw occurs, but only as a part of longer words
OnlyInsideWords(kw, text) ==
    /\ StrIn(kw, text)
    /\ \A i \in 1..Len(text) :
          MatchAt(text, kw, i) =>
              \/ (i > 1 /\ IsWordChar(text[i - 1]))
              \/ (i + Len(kw) <= Len(text) /\ IsWordChar(text[i + Len(kw)]))

\* some level keyword occurs in the combined text, none of them as a whole word
LevelOnlyInsideWords(x) ==
    /\ \E kw \in LEVEL_PATTERNS : StrIn(kw, Combined(x))
    /\ \A kw \in LEVEL_PATTERNS : StrIn(kw, Combined(x)) => OnlyInsideWords(kw, Combined(x))

\* C14: level keywords count only as whole words. A standard-source listing
\* whose level keywords all sit inside longer words, and whose title is not a
\* strong IT title, is rejected by the relevance filter; 'Undergraduate
\* Research Assistant' with no other signal is rejected and 'Graduate Software
\* Engineer' is accepted.
C14_LevelWholeWords ==
    AfterStage("relevance_filter") => \A x \in BuiltSet :
        x.source \notin PRE_TARGETED =>
            /\ (LevelOnlyInsideWords(x) /\ ~StrongTitle(x)) => ~Passed(x)
            /\ ( /\ LowerTitle(x) = Txt(<<"under", "graduate", " ", "research", " ", "assistant">>)
                 /\ x.summary = <<>> ) => ~Passed(x)
            /\ LowerTitle(x) = Txt(<<"graduate", " ", "software", " ", "engineer">>) => Passed(x)

\* 'Undergraduate Data': a role phrase, and 'graduate' only inside a word
C14_Witness ==
    /\ AfterStage("relevance_filter")
    /\ \E i \in DOMAIN Built :
          /\ Built[i].source \notin PRE_TARGETED
          /\ ~TitleExcluded(Built[i])
          /\ HasRole(Built[i])
          /\ LevelOnlyInsideWords(Built[i])
          /\ ~Passed(Built[i])

\* the two listings the claim names
C14_WitnessNamed ==
    /\ AfterStage("relevance_filter")
    /\ \E i \in DOMAIN Built :
          /\ Built[i].source \notin PRE_TARGETED
          /\ \/ /\ LowerTitle(Built[i]) = Txt(<<"under", "graduate", " ", "research", " ", "assistant">>)
                /\ Built[i].summary = <<>>
                /\ ~Passed(Built[i])
             \/ /\ LowerTitle(Built[i]) = Txt(<<"graduate", " ", "software", " ", "engineer">>)
                /\ Passed(Built[i])

\* a term of the resume exclusion list matches the lower-cased "title summary"
\* between word boundaries
HasExcludedTerm(x) == ReSearchWords(RESUME_HARD_EXCLUDE, Combined(x))

\* C15: the resume-fit filter removes a listing iff a term of the exclusion
\* list matches its lower-cased "title summary" text between word boundaries;
\* every other listing stays, and no other signal changes the outcome.
C15_ResumeFilterRule ==
    [][pc = "resume_filter" =>
          \A i \in DOMAIN listings :
              (\E k \in DOMAIN listings' : listings'[k].id = listings[i].id)
                  <=> ~HasExcludedTerm(listings[i])]_vars

\* a strong software-engineer title, rejected for 'Flutter developer' in the
\* summary
C15_Witness ==
    /\ AfterStage("resume_filter")
    /\ listings = <<>>
    /\ \E i \in DOMAIN Built :
          /\ ReSearchWords({Txt(<<"software", " ", "engineer">>)}, LowerTitle(Built[i]))
          /\ StrIn(Txt(<<"flutter", " ", "developer">>), StrLower(Built[i].summary))

\* 'swiftly' holds the term 'swift' inside a longer word: the listing stays
C15_WitnessKept ==
    /\ AfterStage("resume_filter")
    /\ \E i \in DOMAIN listings :
          /\ StrIn(Txt(<<"swift">>), Combined(listings[i]))
          /\ ~HasExcludedTerm(listings[i])

\* ------------------------------------------- the end-to-end scenario

\* the connectors the three records can come from, in the order run_pipeline
\* calls them
ScenarioSources == <<"GradConnection", "Seek", "LinkedIn", "CompanyCareers">>

\* the records (a), (b), (c), collected in this order
ScenarioRaws ==
    { << [raw |-> RawA, source |-> ScenarioSources[i]],
         [raw |-> RawB, source |-> ScenarioSources[j]],
         [raw |-> RawC, source |-> ScenarioSources[k]] >> :
        i \in DOMAIN ScenarioSources,
        j \in DOMAIN ScenarioSources,
        k \in DOMAIN ScenarioSources }

\* a run over the three records from virgin dedupe state, with the configured
\* targets Adelaide and Melbourne (no --city)
InitScenario ==
    /\ file = Absent
    /\ calls = <<>>
    /\ pc = "start"
    /\ raws \in {rs \in ScenarioRaws :
                   \E i, j, k \in DOMAIN ScenarioSources :
                       /\ i <= j /\ j <= k
                       /\ rs[1].source = ScenarioSources[i]
                       /\ rs[2].source = ScenarioSources[j]
                       /\ rs[3].source = ScenarioSources[k]}
    /\ listings = <<>>
    /\ args \in {a \in ArgSets : a.city = None}
    /\ cfg \in {Config(FALSE), Config(TRUE)}
    /\ out = NoOutput
    /\ log = <<>>

SpecScenario == InitScenario /\ [][NextPipeline]_vars

\* the stage has run
Ran(stage) == \E i \in DOMAIN log : log[i] = stage

\* the identities of the listings in the collection, in order
Ids == [i \in DOMAIN listings |-> listings[i].id]

\* the reason names the label
Cites(reason, label) == \E i \in DOMAIN reason : reason[i] = label

\* C16: in the run over (a), (b), (c) all three records pass the location
\* filter, (b) is removed by the relevance filter, (a) and (c) pass the resume
\* filter, (c) is removed by deduplicate because its hash_id is (a)'s, and the
\* run ends with save_csv and save_html called with exactly (a), whose
\* visa_score is above 2 and whose visa_reason cites sponsorship.
C16_EndToEnd ==
    /\ AfterStage("normalize") => Ids = <<1, 2, 3>>
    /\ AfterStage("location_filter") => Ids = <<1, 2, 3>>
    /\ AfterStage("relevance_filter") => Ids = <<1, 3>>
    /\ AfterStage("resume_filter") => Ids = <<1, 3>>
    /\ Ran("deduplicate") =>
          /\ Ids = <<1>>
          /\ HashAtConstruction(3) = HashAtConstruction(1)
    /\ pc \notin {"exit", "raised"}
    /\ pc = "done" =>
          /\ out.save_csv.called /\ out.save_html.called
          /\ \A k \in {"save_csv", "save_html"} :
                /\ Len(out[k].jobs) = 1
                /\ out[k].jobs[1].id = 1
                /\ out[k].jobs[1].visa_score > BASE_SCORE
                /\ Cites(out[k].jobs[1].visa_reason, "Visa sponsorship available")
          /\ \A k \in {"save_markdown", "send_email"} :
                out[k].called => out[k].jobs = out.save_csv.jobs

\* the run has ended with (a) as its one output listing, emailed
C16_Witness ==
    /\ pc = "done"
    /\ Len(raws) = 3
    /\ out.send_email.called
    /\ Len(out.send_email.jobs) = 1
    /\ out.send_email.jobs[1].id = 1
    /\ out.send_email.jobs[1].visa_score = 5

\* ------------------------------------------------ the order of the run

\* the stages of a run, in the order of run_pipeline
StageOrder ==
    << "normalize", "location_filter", "relevance_filter", "resume_filter",
       "deduplicate", "score", "sort", "output" >>

StageNames == {StageOrder[i] : i \in DOMAIN StageOrder}

\* the stages the run has executed so far, in order
StagesRun == SelectSeq(log, LAMBDA e : e \in StageNames)

\* C17: the stages of a run execute in the order normalize, location filter,
\* relevance filter, resume-fit filter, deduplicate, scoring, sort, output,
\* none skipped or repeated; a run left with listings goes through all of
\* them; and every stage after normalize works on the previous stage's result:
\* no listing enters the collection after normalize, and the output
\* collaborators receive the collection the sort left.
C17_StageOrder ==
    /\ [](/\ StagesRun = SubSeq(StageOrder, 1, Len(StagesRun))
          /\ (pc = "done" /\ listings # <<>>) => StagesRun = StageOrder
          /\ \A k \in DOMAIN out : out[k].called => out[k].jobs = listings)
    /\ [][pc # "collect" =>
             \A i \in DOMAIN listings' : \E k \in DOMAIN listings : listings[k].id = listings'[i].id]_vars

\* a run through all the stages that ended with two listings
C17_Witness ==
    /\ pc = "done"
    /\ StagesRun = StageOrder
    /\ Len(raws) = 2
    /\ Len(listings) = 2

\* the accesses to the state file so far
FileEvents == SelectSeq(log, LAMBDA e : e \in {"read", "write", "unlink"})

\* the run has returned with nothing left
EndedEmpty == pc = "done" /\ listings = <<>>

\* C18 as stated: a run that ends with an empty collection before
\* deduplication has neither read nor written the persisted state.
C18_EmptyRunLeavesStateAlone ==
    (EndedEmpty /\ ~Ran("deduplicate")) => FileEvents = <<>>

\* C18, amended: when the collection is empty after collection, a filter or
\* deduplicate, the run has ended normally at that stage and takes no further
\* step; no output collaborator has been called; and if deduplicate has not
\* run, the state file has been neither read nor written, the one access
\* being the deletion by --reset at the start of the run.
C18_EmptyShortCircuits ==
    /\ []((listings = <<>> /\ Ran("normalize")) =>
            /\ pc = "done"
            /\ StagesRun = SubSeq(StageOrder, 1, Len(StagesRun))
            /\ Len(StagesRun) <= 5
            /\ out = NoOutput
            /\ ~Ran("deduplicate") =>
                  /\ \A i \in DOMAIN FileEvents : FileEvents[i] = "unlink"
                  /\ FileEvents # <<>> => args.reset)
    /\ [][pc # "done"]_vars

\* a run without --reset, started on a written state file, that lost its last
\* listing at the relevance filter
C18_Witness ==
    /\ EndedEmpty
    /\ AfterStage("relevance_filter")
    /\ file.kind = "array"
    /\ raws # <<>>
    /\ out = NoOutput

\* a run that found only listings reported before: deduplicate read the
\* state, returned nothing, and the run ended
C18_WitnessDeduplicate ==
    /\ EndedEmpty
    /\ Ran("deduplicate")
    /\ FileEvents = <<"read">>

\* ------------------------------------------------ what the run hands over

\* the list deduplicate returned in this run
Fresh == calls[Len(calls)].fresh

\* js holds exactly the listings of fs, each once and each scored
SameListingsScored(js, fs) ==
    /\ Len(js) = Len(fs)
    /\ \A i \in DOMAIN fs : \E k \in DOMAIN js : js[k].id = fs[i].id /\ js[k] = ScoreJob(fs[i])
    /\ \A i, k \in DOMAIN js : js[i].id = js[k].id => i = k

\* lower(x.title) <= lower(y.title)
TitleLeq(x, y) == TitleRank(StrLower(x.title)) <= TitleRank(StrLower(y.title))

\* C19: every output collaborator called receives exactly the listings
\* deduplicate returned, each scored, ordered by descending visa_score and,
\* among equal scores, by ascending lower-cased title.
C19_OutputSortedFresh ==
    /\ \A k \in DOMAIN out : out[k].called => out[k].jobs = listings
    /\ out.save_csv.called =>
          /\ SameListingsScored(listings, Fresh)
          /\ \A i \in DOMAIN listings : listings[i].visa_score \in SCORE_MIN..SCORE_MAX
          /\ \A i \in 1..(Len(listings) - 1) :
                \/ listings[i].visa_score > listings[i + 1].visa_score
                \/ /\ listings[i].visa_score = listings[i + 1].visa_score
                   /\ TitleLeq(listings[i], listings[i + 1])

\* two listings with equal scores, handed over in the order of their titles,
\* which is not the order they were collected in
C19_Witness ==
    /\ pc = "done"
    /\ out.send_email.called
    /\ Len(out.send_email.jobs) = 2
    /\ out.send_email.jobs[1].visa_score = out.send_email.jobs[2].visa_score
    /\ out.send_email.jobs[1].id > out.send_email.jobs[2].id
    /\ out.send_email.jobs[1].title # out.send_email.jobs[2].title

\* ------------------------------------------------- the location filter

\* the lower-cased names of the active target cities: the city of --city, or
\* the configured Adelaide and Melbourne
TargetCities ==
    IF args.city = None THEN {Txt(<<"adelaide">>), Txt(<<"melbourne">>)}
    ELSE {StrLower(args.city.s)}

\* C20: with include_remote off, the location filter keeps a listing iff its
\* lower-cased location contains the name of an active target city or is
\* exactly 'australia'; with --city the one city named is the only target.
C20_LocationFilterRule ==
    (AfterStage("location_filter") /\ ~cfg.include_remote) =>
        \A x \in BuiltSet :
            Passed(x) <=> \/ StrLower(x.location) = Txt(<<"australia">>)
                          \/ \E city \in TargetCities : StrIn(city, StrLower(x.location))

\* --city melbourne: the Adelaide listing is removed, the listing located
\* 'Australia' passes
C20_Witness ==
    /\ AfterStage("location_filter")
    /\ ~cfg.include_remote
    /\ args.city # None
    /\ \E i, k \in DOMAIN Built :
          /\ Built[i].location = Cap("adelaide") /\ ~Passed(Built[i])
          /\ Built[k].location = Cap("australia") /\ Passed(Built[k])

\* no --city: a listing located 'Remote' is removed
C20_WitnessRemote ==
    /\ AfterStage("location_filter")
    /\ ~cfg.include_remote
    /\ args.city = None
    /\ \E i \in DOMAIN Built : Built[i].location = Cap("remote") /\ ~Passed(Built[i])

\* ---------------------------------------- normalize_many on one batch

MaxBatch == 2

\* a run of letters of 100 characters, and one of 99
Hundred == "aaaaaaaaaaaaaaaaaaaaaaaaaaaaaaaaaaaaaaaaaaaaaaaaaaaaaaaaaaaaaaaaaaaaaaaaaaaaaaaaaaaaaaaaaaaaaaaaaaaa"
NinetyNine == "aaaaaaaaaaaaaaaaaaaaaaaaaaaaaaaaaaaaaaaaaaaaaaaaaaaaaaaaaaaaaaaaaaaaaaaaaaaaaaaaaaaaaaaaaaaaaaaaaaa"

\* records with every choice of title and company present or missing, the
\* other three keys all present or all missing
KeyRaws ==
    { [k \in K |-> CASE k = "title"    -> Str(Cap("analyst"))
                     [] k = "company"  -> Str(Cap("acme"))
                     [] k = "location" -> Str(Cap("perth"))
                     [] k = "url"      -> Str(Txt(<<"x", "/", "1">>))
                     [] k = "summary"  -> Str(Txt(<<"apply", " ", "now">>))]
      : K \in { T \cup R : T \in SUBSET {"title", "company"},
                           R \in {{}, {"location", "url", "summary"}} } }

\* records in which one value is not a str
BadRaws ==
    { bad @@ [title |-> Str(Cap("analyst")), company |-> Str(Cap("acme"))]
      : bad \in { [title |-> None], [title |-> Num], [company |-> None],
                  [location |-> None], [url |-> None], [summary |-> None] } }

\* texts with leading, trailing and repeated whitespace
MessyTitle == <<<<" ", "l">>, <<"data", "C">>, <<" ", "l">>, <<"\t", "l">>,
                <<"analyst", "C">>, <<" ", "l">>>>
MessyCompany == <<<<"\t", "l">>, <<"acme", "C">>, <<" ", "l">>, <<" ", "l">>>>

\* summaries around the 500-character limit: 499 letters; 500 letters; 501
\* letters; 499 letters, a space and a letter; 498 letters, two spaces and a
\* letter; 499 letters, two spaces and a letter
LongWord(last) == Txt(<<Hundred, Hundred, Hundred, Hundred, last>>)
Summaries ==
    { Txt(<<" ", "apply", " ", "\t", "now", " ">>),
      LongWord(NinetyNine),
      LongWord(Hundred),
      LongWord(Hundred) \o Txt(<<"b">>),
      LongWord(NinetyNine) \o Txt(<<" ", "b">>),
      LongWord(NinetyNine) \o Txt(<<" ", " ", "b">>),
      Txt(<<" ", " ">>) \o LongWord(NinetyNine) \o Txt(<<" ", "b">>) }

MessyRaws ==
    { [title |-> Str(MessyTitle), company |-> Str(MessyCompany), summary |-> Str(s)]
      : s \in Summaries }

NormRaws == KeyRaws \cup BadRaws \cup MessyRaws

\* one connector has returned a batch of raw records
InitNormalize ==
    /\ NoRun
    /\ file = Absent
    /\ calls = <<>>
    /\ pc = "collect"
    /\ \E rs \in BoundedSeq(NormRaws, MaxBatch) :
          raws = [i \in DOMAIN rs |-> [source |-> "Seek", raw |-> rs[i]]]
    /\ listings = <<>>

\* normalize_many(raws, source); calls records, for every record of the
\* batch, whether the call normalize(raw, source) made for it raised
NormalizeBatch ==
    /\ pc = "collect"
    /\ listings' = NormalizeMany(raws, 1)
    /\ calls' = [i \in DOMAIN raws |->
                    [op |-> "normalize", raised |-> NormalizeRaises(raws[i].raw)]]
    /\ pc' = "built"
    /\ UNCHANGED <<file, raws, run>>

SpecNormalize == InitNormalize /\ [][NormalizeBatch]_vars

\* the positions of the records on which normalize did not raise, ascending
GoodPositions ==
    SelectSeq([i \in DOMAIN raws |-> i], LAMBDA i : ~NormalizeRaises(raws[i].raw))

\* C21: normalize_many returns to its caller for every batch, and its result
\* holds exactly one listing for every record on which normalize did not
\* raise, in input order, each the listing normalize builds from that record
\* alone; the records on which normalize raised are skipped.
C21_NormalizeManySkipsBad ==
    pc = "built" =>
        /\ Len(listings) = Len(GoodPositions)
        /\ \A k \in DOMAIN listings :
              /\ listings[k].id = GoodPositions[k]
              /\ ~calls[listings[k].id].raised
              /\ listings[k] = Normalize(raws[GoodPositions[k]].raw, "Seek")
                                  @@ [id |-> GoodPositions[k]]
        /\ \A i \in DOMAIN raws :
              calls[i].raised => \A k \in DOMAIN listings : listings[k].id # i

\* a batch whose first record makes normalize raise and whose second record
\* is good: the result is the listing of the second record
C21_Witness ==
    /\ pc = "built"
    /\ Len(raws) = 2
    /\ calls[1].raised /\ ~calls[2].raised
    /\ Len(listings) = 1
    /\ listings[1].id = 2

\* the value normalize is to produce for a key the raw record does not have
DefaultOf(key) == IF key \in {"title", "company"} THEN Cap("unknown") ELSE <<>>

\* the listing built from the record at position i, if there is one
ListingOf(i) == {listings[k] : k \in {k \in DOMAIN listings : listings[k].id = i}}

\* C22: normalize returns a listing for every raw record, whichever keys are
\* missing or hold a value that is not text: no call raises, a missing title
\* or company is 'Unknown' and every other missing field is the empty text.
C22_NormalizeNeverFails ==
    pc = "built" =>
        \A i \in DOMAIN raws :
            /\ ~calls[i].raised
            /\ \E x \in ListingOf(i) :
                  \A key \in RawKeys \ DOMAIN raws[i].raw : x[key] = DefaultOf(key)

\* C23: in a run started with --dry-run, whatever the other flags, no step
\* changes the persisted dedupe set (so the set after the run is the set
\* before it) and send_email is not called.
C23_DryRunLeavesStateAlone ==
    [][args.dry_run => /\ LoadSeen(file') = LoadSeen(file)
                       /\ ~out'.send_email.called]_vars

\* the positions of the log at which event e was recorded
PositionsOf(e) == {i \in DOMAIN log : log[i] = e}

\* the stages of a run other than deduplicate, which holds the file accesses
OtherStages == StageNames \ {"deduplicate"}

\* C24: in every run the persisted state is read at most once, before any
\* other stage of the run has executed, and written at most once, after every
\* other stage of the run has executed.
C24_ReadAtStartWrittenAtEnd ==
    /\ Cardinality(PositionsOf("read")) <= 1
    /\ Cardinality(PositionsOf("write")) <= 1
    /\ \A r \in PositionsOf("read") : \A i \in 1..(r - 1) : log[i] \notin OtherStages
    /\ \A w \in PositionsOf("write") :
          /\ \A i \in (w + 1)..Len(log) : log[i] \notin OtherStages
          /\ pc = "done" => OtherStages \subseteq {log[i] : i \in 1..(w - 1)}

\* ------------------------- deduplicate(persist=True), write by write

\* the most loads of the state file by readers during and after one call
MaxReads == 1

\* the state files earlier runs can have left: none, or the sorted array of
\* some hashes of the pool
SavedFiles ==
    {Absent} \cup {SaveSeen(S) : S \in SUBSET {Str(x.hash_id) : x \in Pool} \ {{}}}

\* a caller is about to run deduplicate(listings, persist=True)
InitSave ==
    /\ NoRun
    /\ file \in SavedFiles
    /\ calls = <<>>
    /\ pc = "call"
    /\ raws = <<>>
    /\ listings \in BoundedSeq(Pool, MaxListings)

\* deduplicate up to the call of _save_seen: _load_seen, the loop and
\* seen.update(session_seen); calls keeps the state file the call found and
\* the one it is going to write
SaveBegin ==
    /\ pc = "call"
    /\ LET r == DeduplicateOn(file, listings, TRUE)
       IN  /\ calls' = <<[op |-> "deduplicate", before |-> file, after |-> r.file]>>
           /\ pc' = IF r.file = file THEN "returned" ELSE "open"
    /\ UNCHANGED <<file, raws, listings, run>>

\* write_text opens the state file for writing: the file exists and is empty
WriteOpen ==
    /\ pc = "open"
    /\ file' = Invalid
    /\ pc' = "writing"
    /\ UNCHANGED <<calls, raws, listings, run>>

\* write_text writes the serialized array and closes the file
WriteData ==
    /\ pc = "writing"
    /\ file' = calls[1].after
    /\ pc' = "returned"
    /\ UNCHANGED <<calls, raws, listings, run>>

\* the process ends during _save_seen (killed, crashed, power lost)
Interrupt ==
    /\ pc \in {"open", "writing"}
    /\ pc' = "killed"
    /\ UNCHANGED <<file, calls, raws, listings, run>>

\* a reader (a later run, or another process) runs _load_seen
ReadState ==
    /\ pc # "call"
    /\ Len(calls) < 1 + MaxReads
    /\ calls' = Append(calls, [op |-> "load", at |-> pc, seen |-> LoadSeen(file)])
    /\ UNCHANGED <<file, pc, raws, listings, run>>

NextSave == SaveBegin \/ WriteOpen \/ WriteData \/ Interrupt \/ ReadState

SpecSave == InitSave /\ [][NextSave]_vars

\* C25: every load of the state file during or after a call of
\* deduplicate(persist=True), also after a write that was interrupted,
\* yields the complete set the call found or the complete set it writes.
C25_WriteIsAtomic ==
    \A i \in 2..Len(calls) :
        calls[i].seen \in {LoadSeen(calls[1].before), LoadSeen(calls[1].after)}

\* the positions of the entries of the three tables whose phrase is in the
\* listing's lower-cased "title summary", in table order
Fired(job) ==
    SelectSeq([i \in DOMAIN AllSignals |-> i],
              LAMBDA i : StrIn(AllSignals[i][1],
                               StrLower(job.title \o Txt(<<" ">>) \o job.summary)))

LabelOf(i) == AllSignals[i][3]
MarkOf(i) == IF i <= Len(HARD_NEGATIVES) + Len(SOFT_NEGATIVES) THEN "[-] " ELSE "[+] "

\* the labels of the entries es joined by "; "
LabelsJoined(es) ==
    [k \in 1..(2 * Len(es) - 1) |->
        IF k % 2 = 1 THEN LabelOf(es[(k + 1) \div 2]) ELSE "; "]

\* the labels of the entries es, each after its mark, joined by "; "
MarkedLabelsJoined(es) ==
    [k \in 1..(3 * Len(es) - 1) |->
        CASE k % 3 = 1 -> MarkOf(es[(k + 2) \div 3])
          [] k % 3 = 2 -> LabelOf(es[(k + 1) \div 3])
          [] OTHER     -> "; "]

\* the listing normalize built from the i-th record
BuiltFrom(i) == Normalize(raws[i].raw, raws[i].source)

\* C26 as stated: after score_all, visa_reason is the labels of the fired
\* entries, in table order, joined by "; ", or the sentinel when none fired.
C26_ReasonIsJoinedLabels ==
    pc = "scored" =>
        \A i \in DOMAIN listings :
            LET es == Fired(listings[i])
            IN  listings[i].visa_reason = IF es = <<>> THEN NO_SIGNALS ELSE LabelsJoined(es)

\* C26, amended: after score_all, visa_reason is the '; '-joined list with one
\* item per fired entry, in table order (hard negatives, soft negatives,
\* positives), each item being the entry's label preceded by "[-] " for a
\* negative and "[+] " for a positive, or the sentinel when no entry fired; it
\* is the sentinel iff none fired; and score_all returns the listings it was
\* given, same number and order, changed in visa_score and visa_reason only.
C26_ReasonIsJoinedMarkedLabels ==
    pc = "scored" =>
        /\ Len(listings) = Len(raws)
        /\ \A i \in DOMAIN listings :
              LET es == Fired(listings[i])
              IN  /\ listings[i].visa_reason =
                        IF es = <<>> THEN NO_SIGNALS ELSE MarkedLabelsJoined(es)
                  /\ (listings[i].visa_reason = NO_SIGNALS) <=> (es = <<>>)
                  /\ listings[i] = [BuiltFrom(i) EXCEPT
                                       !.visa_score = listings[i].visa_score,
                                       !.visa_reason = listings[i].visa_reason]

\* two entries with the same label fire: the label is in visa_reason twice
C26_Witness ==
    /\ pc = "scored"
    /\ \E a, b \in DOMAIN AllSignals :
          /\ a < b
          /\ LabelOf(a) = LabelOf(b)
          /\ Fired(listings[1]) = <<a, b>>
          /\ listings[1].visa_reason =
                 <<MarkOf(a), LabelOf(a), "; ", MarkOf(b), LabelOf(b)>>

\* a listing without signals stays in front of a listing with a higher score
C26_WitnessOrder ==
    /\ pc = "scored"
    /\ Len(listings) = 2
    /\ listings[1].visa_reason = NO_SIGNALS
    /\ listings[1].visa_score < listings[2].visa_score

\* ------------------------------------------------ _normalize_location

\* the most place names in one raw location
MaxLocParts == 2

\* place names: every alias of the table, names without an alias, and names
\* with the alias "sa" inside a word
LocationParts ==
    {LOCATION_MAP[i][1] : i \in DOMAIN LOCATION_MAP}
    \cup { Txt(<<"perth">>), Txt(<<"sydney", " ", "nsw">>),
           Txt(<<"western", " ", "australia">>), Txt(<<"pa", "sa", "dena">>) }

\* the place names, title-cased, joined by ", "
RECURSIVE JoinPlaces(_)
JoinPlaces(ps) ==
    IF ps = <<>> THEN <<>>
    ELSE IF Len(ps) = 1 THEN StrTitle(Head(ps))
    ELSE StrTitle(Head(ps)) \o Txt(<<",", " ">>) \o JoinPlaces(Tail(ps))

\* raw locations: one or more place names, with or without spaces around
LocationTexts ==
    LET joined == {JoinPlaces(ps) : ps \in BoundedSeq(LocationParts, MaxLocParts) \ {<<>>}}
    IN  joined \cup {Txt(<<" ">>) \o t \o Txt(<<" ">>) : t \in joined} \cup {<<>>}

\* _LOCATION_MAP with its k-th entry moved to the front
MoveToFront(k) ==
    <<LOCATION_MAP[k]>> \o SelectSeq(LOCATION_MAP, LAMBDA e : e # LOCATION_MAP[k])

\* a raw record with a location arrives
InitLocation ==
    /\ NoRun
    /\ file = Absent
    /\ calls = <<>>
    /\ pc = "collect"
    /\ \E t \in LocationTexts : raws = <<[raw |-> [location |-> Str(t)], source |-> "Seek"]>>
    /\ listings = <<>>

\* normalize builds the listing; calls keeps what _normalize_location returns
\* for the same raw location when the k-th entry of the table comes first
NormalizeLocationOf ==
    /\ pc = "collect"
    /\ listings' = NormalizeMany(raws, 1)
    /\ \E k \in DOMAIN LOCATION_MAP :
          calls' = <<[op |-> "_normalize_location", first |-> k,
                      result |-> NormalizeLocationWith(MoveToFront(k), raws[1].raw.location.s)]>>
    /\ pc' = "built"
    /\ UNCHANGED <<file, raws, run>>

SpecLocation == InitLocation /\ [][NormalizeLocationOf]_vars

\* the aliases contained in the stripped, lower-cased raw location
MatchingAliases(raw) ==
    {i \in DOMAIN LOCATION_MAP : StrIn(LOCATION_MAP[i][1], StrLower(StrStrip(raw)))}

\* C27: the location of the listing is the value _normalize_location returns
\* under every order of the alias table (whichever entry comes first), and
\* when no alias matches it is the stripped, title-cased raw location.
C27_AliasOrderIndependent ==
    pc = "built" =>
        LET raw == raws[1].raw.location.s
        IN  /\ listings[1].location = calls[1].result
            /\ MatchingAliases(raw) = {} => listings[1].location = StrTitle(StrStrip(raw))

\* no leading, trailing or repeated whitespace
Tidy(s) ==
    /\ s # <<>> => ~IsSpace(s[1]) /\ ~IsSpace(s[Len(s)])
    /\ \A i \in 1..(Len(s) - 1) : ~(IsSpace(s[i]) /\ IsSpace(s[i + 1]))

\* C28: title, company and summary of every listing normalize produces are
\* free of leading, trailing and repeated whitespace, and the summary has at
\* most 500 characters, also when the summary was cut at 500 characters.
C28_FieldsTidy ==
    \A k \in DOMAIN listings :
        /\ Tidy(listings[k].title)
        /\ Tidy(listings[k].company)
        /\ Tidy(listings[k].summary)
        /\ StrLen(listings[k].summary) <= SUMMARY_MAX

\* ------------------------------------------- run after run of jobradar

\* the most runs of jobradar on one state file
MaxRuns == 2

\* the records the connectors can return in these runs, in connector order:
\* the listing of RawA from Seek, the same listing with another summary from
\* LinkedIn, and a CompanyCareers listing whose summary names Flutter on one
\* day and does not on another
RunPool ==
    << [raw |-> RawA, source |-> "Seek"],
       [raw |-> RawC, source |-> "LinkedIn"],
       RawPool[5],
       [RawPool[5] EXCEPT !.raw.summary = Str(Txt(<<"apply", " ", "now">>))] >>

\* what the connectors return in one of these runs: nothing, one record, or
\* two records (the same listing from two connectors, two different
\* listings, or both records of the CompanyCareers listing)
RunRawLists ==
    { Pick(RunPool, K, 1) : K \in {{}, {1}, {3}, {4}, {1, 2}, {1, 3}, {1, 4}, {3, 4}} }

\* the command lines of these runs:  jobradar run --no-email [--dry-run] [--reset]
RunArgSets ==
    [ dry_run : BOOLEAN, reset : BOOLEAN, city : {None},
      no_email : {TRUE}, no_markdown : {FALSE} ]

\* the built listings of the current run that satisfy the location, relevance
\* and resume fit conditions
PassingListings ==
    SelectSeq(NormalizeMany(raws, 1),
              LAMBDA j : /\ InTargetLocation(j, LocationLower(args, cfg))
                         /\ j.title # <<>>
                         /\ IsRelevant(j)
                         /\ FitsResume(j))

\* what the runs completed so far did, kept with the outputs: how many they
\* are, whether none of them used --dry-run or --reset, the hash_ids they
\* wrote to their output, the hash_ids of the listings that passed the three
\* filters of a run without --dry-run, and the hash_ids of the listings a run
\* built and filtered out
NoHistory ==
    [runs |-> 0, clean |-> TRUE, reported |-> {}, passed |-> {}, rejected |-> {}]

HistoryAfterRun ==
    LET h == out.history
        passing == IF Ran("normalize") THEN HashSet(PassingListings) ELSE {}
        built == IF Ran("normalize") THEN HashSet(Built) ELSE {}
    IN  [ runs     |-> h.runs + 1,
          clean    |-> h.clean /\ ~args.dry_run /\ ~args.reset,
          reported |-> h.reported \cup HashSet(out.save_csv.jobs),
          passed   |-> h.passed \cup (IF args.dry_run THEN {} ELSE passing),
          rejected |-> h.rejected \cup {x \in built :
                          \E i \in DOMAIN Built :
                              /\ Str(Built[i].hash_id) = x
                              /\ \A k \in DOMAIN PassingListings :
                                    PassingListings[k].id # Built[i].id} ]

\* the first run of an installation: no state file has been written yet
InitRuns ==
    /\ file = Absent
    /\ calls = <<>>
    /\ pc = "start"
    /\ raws \in RunRawLists
    /\ listings = <<>>
    /\ args \in RunArgSets
    /\ cfg = Config(FALSE)
    /\ out = [ save_csv |-> NotCalled, save_html |-> NotCalled,
               save_markdown |-> NotCalled, send_email |-> NotCalled,
               history |-> NoHistory ]
    /\ log = <<>>

\* the run has returned and jobradar is started again, on the state file the
\* earlier runs left
StartNextRun ==
    /\ pc \in {"done", "exit"}
    /\ out.history.runs + 1 < MaxRuns
    /\ out' = [ save_csv |-> NotCalled, save_html |-> NotCalled,
                save_markdown |-> NotCalled, send_email |-> NotCalled,
                history |-> HistoryAfterRun ]
    /\ pc' = "start"
    /\ raws' \in RunRawLists
    /\ args' \in RunArgSets
    /\ listings' = <<>>
    /\ calls' = <<>>
    /\ log' = <<>>
    /\ UNCHANGED <<file, cfg>>

NextRuns == NextPipeline \/ StartNextRun

SpecRuns == InitRuns /\ [][NextRuns]_vars

\* the hash_ids a run without --dry-run may have added by now: those of its
\* listings that passed the three filters, once deduplicate has run
AddedByThisRun ==
    IF ~args.dry_run /\ Ran("deduplicate") THEN HashSet(PassingListings) ELSE {}

DistinctHashes(ls) == \A i, k \in DOMAIN ls : ls[i].hash_id = ls[k].hash_id => i = k

\* C30: while no run has used --dry-run or --reset, the output of a run holds
\* no hash_id twice and no hash_id an earlier run has written to its output.
C30_ReportedOnce ==
    (out.history.clean /\ ~args.dry_run /\ ~args.reset /\ out.save_csv.called) =>
        /\ DistinctHashes(out.save_csv.jobs)
        /\ HashSet(out.save_csv.jobs) \cap out.history.reported = {}

\* a run collects a listing an earlier run has reported and a new one: its
\* output is the new one
C30_Witness ==
    /\ out.history.clean /\ ~args.dry_run /\ ~args.reset
    /\ out.history.reported # {}
    /\ pc = "done"
    /\ \E i \in DOMAIN PassingListings :
          Str(PassingListings[i].hash_id) \in out.history.reported
    /\ Len(out.save_csv.jobs) = 1
    /\ HashSet(out.save_csv.jobs) \cap out.history.reported = {}

====
